---- MODULE Spec2Model ----
(***************************************************************************)
(* Entity cache and permission resolution of kiera.js:                     *)
(* ClubChannel, Club and Member of src/structures.                         *)
(*                                                                         *)
(* A capability bitmask is modelled as the set of the bits that are set:   *)
(* a & b is a \cap b, a | b is a \cup b, a & ~b is a \ b, and a mask is    *)
(* truthy when it is not empty.                                            *)
(* A JavaScript scalar is modelled as a string: "undefined", "null",       *)
(* "false", "true", "0", "" and other literals stand for themselves.       *)
(* A payload is a function whose DOMAIN is the set of keys it carries.     *)
(***************************************************************************)
EXTENDS Integers, Sequences, FiniteSets, TLC

VARIABLES club, roles, member, voiceStates, channel, data, op, result, merges,
          client, members, channels, built

vars == <<club, roles, member, voiceStates, channel, data, op, result, merges,
          client, members, channels, built>>

\* the client and the registries of the club that holds entities
cacheVars == <<client, members, channels, built>>

----------------------------------------------------------------------------
(* Bounds *)

\* longest member.roles list
MaxRoles == 2
\* number of merges applied to the club after construction
MaxClubMerges == 2
\* number of merges applied to the member and the channel after construction
MaxMerges == 2

----------------------------------------------------------------------------
(* Identifiers *)

\* the club's id, which is also the id of its everyone role
ClubID == "c"
\* the member whose permissions are resolved and who receives the merges
MemberID == "m"
\* some other user
OtherID == "o"
\* roles of the club other than the everyone role
RoleIDs == {"r1", "r2"}

----------------------------------------------------------------------------
(* Constants.Permissions *)

Bits == {"administrator", "readMessages", "sendMessages"}
Masks == SUBSET Bits

Permissions_administrator == {"administrator"}

Permissions_all == Bits

\* new Permission(allow)
Permission(allow) == [threw |-> FALSE, allow |-> allow]
\* a TypeError raised out of the call
Thrown == [threw |-> TRUE, allow |-> {}]

Range(s) == {s[i] : i \in 1..Len(s)}

----------------------------------------------------------------------------
(* Club.permissionsOf *)

\* a loop that ends at the first role id the registry does not resolve
RECURSIVE ClubRolesLoop_StopAtUnknown(_, _)
ClubRolesLoop_StopAtUnknown(permissions, rs) ==
    IF rs = <<>> THEN permissions
    ELSE IF Head(rs) \notin DOMAIN roles
         THEN permissions
         ELSE LET perm == roles[Head(rs)]
              IN  IF perm \cap Permissions_administrator # {}
                  THEN Permissions_all
                  ELSE ClubRolesLoop_StopAtUnknown(permissions \cup perm, Tail(rs))

\* for(let role of member.roles) { ... } with the accumulator permissions
RECURSIVE ClubRolesLoop(_, _)
ClubRolesLoop(permissions, rs) ==
    IF rs = <<>> THEN permissions
    ELSE IF Head(rs) \notin DOMAIN roles
         THEN ClubRolesLoop(permissions, Tail(rs))
         ELSE LET perm == roles[Head(rs)]
              IN  IF perm \cap Permissions_administrator # {}
                  THEN Permissions_all
                  ELSE ClubRolesLoop(permissions \cup perm, Tail(rs))

ClubPermissionsOf_NoOwner(m) ==
    IF ClubID \notin DOMAIN roles
    THEN Thrown
    ELSE Permission(ClubRolesLoop(roles[ClubID], m.roles))

ClubPermissionsOf_NoEveryone(m) ==
    IF m.id = club.ownerID
    THEN Permission(Permissions_all)
    ELSE IF ClubID \notin DOMAIN roles
         THEN Thrown
         ELSE Permission(ClubRolesLoop({}, m.roles))

ClubPermissionsOf(m) ==
    IF m.id = club.ownerID
    THEN Permission(Permissions_all)
    ELSE IF ClubID \notin DOMAIN roles
         THEN Thrown
         ELSE Permission(ClubRolesLoop(roles[ClubID], m.roles))

----------------------------------------------------------------------------
(* ClubChannel.permissionsOf *)

\* permission = (permission & ~overwrite.deny) | overwrite.allow
ApplyOverwrite(permission, deny, allow) == (permission \ deny) \cup allow

\* if(overwrite) { permission = ... } for the overwrite keyed by id
ApplyOverwriteOf(permission, id) ==
    IF id \in DOMAIN channel.permissionOverwrites
    THEN ApplyOverwrite(permission,
                        channel.permissionOverwrites[id].deny,
                        channel.permissionOverwrites[id].allow)
    ELSE permission

\* for(const roleID of member.roles) { deny |= ...; allow |= ... }
RECURSIVE RolePool(_, _, _)
RolePool(rs, deny, allow) ==
    IF rs = <<>> THEN [deny |-> deny, allow |-> allow]
    ELSE IF Head(rs) \in DOMAIN channel.permissionOverwrites
         THEN RolePool(Tail(rs),
                       deny \cup channel.permissionOverwrites[Head(rs)].deny,
                       allow \cup channel.permissionOverwrites[Head(rs)].allow)
         ELSE RolePool(Tail(rs), deny, allow)

\* the role overwrites applied one after the other, in the order of the list
RECURSIVE RolesInTurn(_, _)
RolesInTurn(permission, rs) ==
    IF rs = <<>> THEN permission
    ELSE RolesInTurn(ApplyOverwriteOf(permission, Head(rs)), Tail(rs))

ChannelPermissionsOf_Sequential(m) ==
    LET base == ClubPermissionsOf(m)
    IN  IF base.threw THEN Thrown
        ELSE IF base.allow \cap Permissions_administrator # {}
        THEN Permission(Permissions_all)
        ELSE LET p1 == ApplyOverwriteOf(base.allow, ClubID)
                 p2 == RolesInTurn(p1, m.roles)
             IN  Permission(ApplyOverwriteOf(p2, m.id))

ChannelPermissionsOf_AllowBeforeDeny(m) ==
    LET base == ClubPermissionsOf(m)
    IN  IF base.threw THEN Thrown
        ELSE IF base.allow \cap Permissions_administrator # {}
        THEN Permission(Permissions_all)
        ELSE LET p1   == ApplyOverwriteOf(base.allow, ClubID)
                 pool == RolePool(m.roles, {}, {})
                 p2   == (p1 \cup pool.allow) \ pool.deny
             IN  Permission(ApplyOverwriteOf(p2, m.id))

ChannelPermissionsOf_MemberFirst(m) ==
    LET base == ClubPermissionsOf(m)
    IN  IF base.threw THEN Thrown
        ELSE IF base.allow \cap Permissions_administrator # {}
        THEN Permission(Permissions_all)
        ELSE LET p1   == ApplyOverwriteOf(base.allow, ClubID)
                 p2   == ApplyOverwriteOf(p1, m.id)
                 pool == RolePool(m.roles, {}, {})
             IN  Permission(ApplyOverwrite(p2, pool.deny, pool.allow))

ChannelPermissionsOf(m) ==
    LET base == ClubPermissionsOf(m)
    IN  IF base.threw THEN Thrown
        ELSE IF base.allow \cap Permissions_administrator # {}
        THEN Permission(Permissions_all)
        ELSE LET p1   == ApplyOverwriteOf(base.allow, ClubID)
                 pool == RolePool(m.roles, {}, {})
                 p2   == ApplyOverwrite(p1, pool.deny, pool.allow)
             IN  Permission(ApplyOverwriteOf(p2, m.id))

----------------------------------------------------------------------------
(* JavaScript values *)

\* data.key, "undefined" for a key the payload does not carry
Get(d, key) == IF key \in DOMAIN d THEN d[key] ELSE "undefined"

\* data.hasOwnProperty(key)
HasOwnProperty(d, key) == key \in DOMAIN d

\* the values JavaScript treats as false in a condition
Falsy == {"undefined", "null", "false", "0", "", "NaN"}
Truthy(v) == v \notin Falsy

\* an object-valued attribute that is null, and one that was never assigned
NullObject == [null |-> "null"]
UndefinedObject == [undefined |-> "undefined"]

\* Object.assign(target, source): null and undefined sources are skipped
ObjectAssign(target, source) ==
    IF source \in {NullObject, UndefinedObject}
    THEN target
    ELSE [k \in DOMAIN target \cup DOMAIN source |->
            IF k \in DOMAIN source THEN source[k] ELSE target[k]]

\* Date.parse(string): the timestamp of an ISO date, NaN for anything else
IsoDate == "2020-01-01T00:00:00.000Z"
DateParse(s) == IF s = IsoDate THEN "1577836800000" ELSE "NaN"

\* the payload carrying the one key k with value v
Single(k, v) == [x \in {k} |-> v]

EmptyPayload == [x \in {} |-> "undefined"]

----------------------------------------------------------------------------
(* Club.update *)

\* payload key  ->  attribute, one entry per if statement of Club.update
ClubFields ==
    [ name                          |-> "name",
      verification_level            |-> "verificationLevel",
      splash                        |-> "splash",
      banner                        |-> "banner",
      region                        |-> "region",
      owner_id                      |-> "ownerID",
      icon                          |-> "icon",
      features                      |-> "features",
      emojis                        |-> "emojis",
      afk_channel_id                |-> "afkChannelID",
      afk_timeout                   |-> "afkTimeout",
      default_message_notifications |-> "defaultNotifications",
      mfa_level                     |-> "mfaLevel",
      large                         |-> "large",
      max_presences                 |-> "maxPresences",
      explicit_content_filter       |-> "explicitContentFilter",
      system_channel_id             |-> "systemChannelID",
      premium_tier                  |-> "premiumTier",
      premium_subscription_count    |-> "premiumSubscriptionCount",
      vanity_url_code               |-> "vanityURL",
      preferred_locale              |-> "preferredLocale",
      description                   |-> "description",
      max_members                   |-> "maxMembers",
      public_updates_channel_id     |-> "publicUpdatesChannelID",
      rules_channel_id              |-> "rulesChannelID",
      max_video_channel_users       |-> "maxVideoChannelUsers" ]

ClubKeys == DOMAIN ClubFields
ClubAttrs == {ClubFields[k] : k \in ClubKeys}
ClubKeyOf(attr) == CHOOSE k \in ClubKeys : ClubFields[k] = attr

\* a Club before update(data) has run: no attribute of the table is assigned
NewClub == [a \in ClubAttrs |-> "undefined"]

\* if(data.key) { this.attr = data.key; }
ClubUpdate_IfTruthy(c, d) ==
    [a \in ClubAttrs |->
        IF Truthy(Get(d, ClubKeyOf(a))) THEN d[ClubKeyOf(a)] ELSE c[a]]

\* if(data.key !== undefined) { this.attr = data.key; }
ClubUpdate(c, d) ==
    [a \in ClubAttrs |->
        IF Get(d, ClubKeyOf(a)) # "undefined" THEN d[ClubKeyOf(a)] ELSE c[a]]

----------------------------------------------------------------------------
(* Collection and VoiceState *)

\* VoiceState.update(data): the presence-aware merge of a voice payload
VoiceStateUpdate(state, d) ==
    [ channelID |-> IF Get(d, "channel_id") # "undefined"
                    THEN d.channel_id ELSE state.channelID,
      mute      |-> IF Get(d, "mute") # "undefined"
                    THEN d.mute ELSE state.mute,
      deaf      |-> IF Get(d, "deaf") # "undefined"
                    THEN d.deaf ELSE state.deaf,
      suppress  |-> IF Get(d, "suppress") # "undefined"
                    THEN d.suppress ELSE state.suppress ]

\* new VoiceState({id}): the all-default state
DefaultVoiceState ==
    [channelID |-> "null", mute |-> "false", deaf |-> "false", suppress |-> "false"]

\* Collection.update(data) of a VoiceState registry: merge-only, nothing
\* happens when no entry is registered under data.id
VoiceStatesUpdate(vs, d) ==
    IF Get(d, "id") \in DOMAIN vs
    THEN [vs EXCEPT ![d.id] = VoiceStateUpdate(@, d)]
    ELSE vs

\* Collection.delete(id)
CollectionDelete(coll, id) == [x \in DOMAIN coll \ {id} |-> coll[x]]

\* Collection.add(data) of a PermissionOverwrite registry: construct the
\* entry, or merge the payload into the entry registered under data.id
OverwritesAdd(coll, o) ==
    [x \in DOMAIN coll \cup {o.id} |->
        IF x = o.id THEN [type |-> o.type, allow |-> o.allow, deny |-> o.deny]
        ELSE coll[x]]

\* whether Collection.add(o) can read o.id: it throws a TypeError on null
CanAdd(o) == o # NullObject

\* data.permission_overwrites.forEach((overwrite) => registry.add(overwrite));
\* an add that throws ends the loop with the entries added so far
RECURSIVE OverwritesAddAll(_, _)
OverwritesAddAll(coll, list) ==
    IF list = <<>> THEN coll
    ELSE IF ~CanAdd(Head(list)) THEN coll
    ELSE OverwritesAddAll(OverwritesAdd(coll, Head(list)), Tail(list))

\* new Collection(PermissionOverwrite)
EmptyCollection == [x \in {} |-> "undefined"]

----------------------------------------------------------------------------
(* Member.update *)

\* the object client_status is laid over
OfflineStatus == [web |-> "offline", desktop |-> "offline", mobile |-> "offline"]

\* payload key -> attribute, for the attributes Member.update assigns
MemberFields ==
    [ status         |-> "status",
      game           |-> "game",
      joined_at      |-> "joinedAt",
      client_status  |-> "clientStatus",
      activities     |-> "activities",
      premium_since  |-> "premiumSince",
      nick           |-> "nick",
      roles          |-> "roles" ]

MemberKeys == DOMAIN MemberFields

\* the full disconnect merged into the registered state instead of deleting it
MemberUpdateVoice_NoDelete(vs, m, d) ==
    IF HasOwnProperty(d, "mute") /\ m.id \in DOMAIN vs
    THEN [vs EXCEPT ![m.id] = VoiceStateUpdate(@, d)]
    ELSE vs

\* the voice part of Member.update: the registry club.voiceStates afterwards
MemberUpdateVoice(vs, m, d) ==
    IF HasOwnProperty(d, "mute")
    THEN IF /\ Get(d, "channel_id") = "null"
            /\ ~Truthy(Get(d, "mute"))
            /\ ~Truthy(Get(d, "deaf"))
            /\ ~Truthy(Get(d, "suppress"))
         THEN CollectionDelete(vs, m.id)
         ELSE IF m.id \in DOMAIN vs
         THEN [vs EXCEPT ![m.id] = VoiceStateUpdate(@, d)]
         ELSE IF \/ Truthy(Get(d, "channel_id"))
                 \/ Truthy(Get(d, "mute"))
                 \/ Truthy(Get(d, "deaf"))
                 \/ Truthy(Get(d, "suppress"))
         THEN VoiceStatesUpdate(vs, d)
         ELSE vs
    ELSE vs

\* this.key = data.key for every attribute, whether the key is there or not
MemberUpdate_Blind(m, d) ==
    [ id           |-> m.id,
      status       |-> Get(d, "status"),
      game         |-> Get(d, "game"),
      joinedAt     |-> IF "joined_at" \in DOMAIN d
                       THEN DateParse(d.joined_at) ELSE "undefined",
      clientStatus |-> IF "client_status" \in DOMAIN d
                       THEN ObjectAssign(OfflineStatus, d.client_status)
                       ELSE UndefinedObject,
      activities   |-> Get(d, "activities"),
      premiumSince |-> Get(d, "premium_since"),
      nick         |-> Get(d, "nick"),
      roles        |-> IF "roles" \in DOMAIN d THEN d.roles ELSE <<>> ]

\* if(data.key) { this.key = data.key; } for the scalar attributes
MemberUpdate_IfTruthy(m, d) ==
    [ id           |-> m.id,
      status       |-> IF Truthy(Get(d, "status")) THEN d.status ELSE m.status,
      game         |-> IF Truthy(Get(d, "game")) THEN d.game ELSE m.game,
      joinedAt     |-> IF Truthy(Get(d, "joined_at"))
                       THEN DateParse(d.joined_at) ELSE m.joinedAt,
      clientStatus |-> IF "client_status" \in DOMAIN d
                       THEN ObjectAssign(OfflineStatus, d.client_status)
                       ELSE m.clientStatus,
      activities   |-> IF Truthy(Get(d, "activities"))
                       THEN d.activities ELSE m.activities,
      premiumSince |-> IF Truthy(Get(d, "premium_since"))
                       THEN d.premium_since ELSE m.premiumSince,
      nick         |-> IF Truthy(Get(d, "nick")) THEN d.nick ELSE m.nick,
      roles        |-> IF "roles" \in DOMAIN d THEN d.roles ELSE m.roles ]

\* a merge that appends the payload's roles to the member's
MemberUpdate_AppendRoles(m, d) ==
    [ id           |-> m.id,
      status       |-> IF Get(d, "status") # "undefined"
                       THEN d.status ELSE m.status,
      game         |-> IF Get(d, "game") # "undefined"
                       THEN d.game ELSE m.game,
      joinedAt     |-> IF Get(d, "joined_at") # "undefined"
                       THEN DateParse(d.joined_at) ELSE m.joinedAt,
      clientStatus |-> IF "client_status" \in DOMAIN d
                       THEN ObjectAssign(OfflineStatus, d.client_status)
                       ELSE m.clientStatus,
      activities   |-> IF Get(d, "activities") # "undefined"
                       THEN d.activities ELSE m.activities,
      premiumSince |-> IF Get(d, "premium_since") # "undefined"
                       THEN d.premium_since ELSE m.premiumSince,
      nick         |-> IF Get(d, "nick") # "undefined"
                       THEN d.nick ELSE m.nick,
      roles        |-> IF "roles" \in DOMAIN d THEN m.roles \o d.roles
                       ELSE m.roles ]

\* the attributes of the member after update(data)
MemberUpdate(m, d) ==
    [ id           |-> m.id,
      status       |-> IF Get(d, "status") # "undefined"
                       THEN d.status ELSE m.status,
      game         |-> IF Get(d, "game") # "undefined"
                       THEN d.game ELSE m.game,
      joinedAt     |-> IF Get(d, "joined_at") # "undefined"
                       THEN DateParse(d.joined_at) ELSE m.joinedAt,
      clientStatus |-> IF "client_status" \in DOMAIN d
                       THEN ObjectAssign(OfflineStatus, d.client_status)
                       ELSE m.clientStatus,
      activities   |-> IF Get(d, "activities") # "undefined"
                       THEN d.activities ELSE m.activities,
      premiumSince |-> IF Get(d, "premium_since") # "undefined"
                       THEN d.premium_since ELSE m.premiumSince,
      nick         |-> IF Get(d, "nick") # "undefined"
                       THEN d.nick ELSE m.nick,
      roles        |-> IF "roles" \in DOMAIN d THEN d.roles ELSE m.roles ]

\* the Member constructor: game = null, nick = null, roles = [], update(data)
NewMember(id, d) ==
    MemberUpdate([ id           |-> id,
                   status       |-> "undefined",
                   game         |-> "null",
                   joinedAt     |-> "undefined",
                   clientStatus |-> UndefinedObject,
                   activities   |-> "undefined",
                   premiumSince |-> "undefined",
                   nick         |-> "null",
                   roles        |-> <<>> ], d)

\* a getter that always builds a detached state
MemberVoiceState_AlwaysDetached(vs, m) ==
    [id |-> m.id, registered |-> FALSE, state |-> DefaultVoiceState]

\* get voiceState(): the state registered under the member's id in
\* club.voiceStates, or new VoiceState({id: this.id}), which is not registered
MemberVoiceState(vs, m) ==
    IF m.id \in DOMAIN vs
    THEN [id |-> m.id, registered |-> TRUE, state |-> vs[m.id]]
    ELSE [id |-> m.id, registered |-> FALSE, state |-> DefaultVoiceState]

----------------------------------------------------------------------------
(* The Member constructor and the registries it reads and fills *)

\* what an entity's club field holds: the Club under study, an earlier Club
\* object of the same id, an object carrying only the id, or nothing
ThisClub == [kind |-> "Club", id |-> ClubID]
OldClub == [kind |-> "OldClub", id |-> ClubID]
PlaceholderClub == [kind |-> "placeholder", id |-> ClubID]
NoClub == [kind |-> "undefined", id |-> "undefined"]

\* what a member's user field holds: the object registered in client.users
\* under an id, a User of its own, or null
CachedUser(id) == [kind |-> "cached", id |-> id]
OwnUser(u) == [kind |-> "own", id |-> u.id, username |-> u.username]
NullUser == [kind |-> "null", id |-> "null"]

\* client.users.add(data, client): construct or merge
UsersAdd(users, u) ==
    [x \in DOMAIN users \cup {u.id} |->
        IF x = u.id THEN [username |-> u.username] ELSE users[x]]

\* the outcome of a constructor that threw: nothing was built
ThrewError(name, users, vs) ==
    [threw |-> TRUE, error |-> name, member |-> NullObject,
     users |-> users, voiceStates |-> vs]

\* a constructor that registers the embedded user whether cached or not
MemberConstructor_AlwaysAddUser(d, c, users, vs) ==
    LET hasId   == Truthy(Get(d, "id"))
        hasUser == "user" \in DOMAIN d
    IN  IF ~hasId /\ ~hasUser
        THEN ThrewError("TypeError", users, vs)
        ELSE
        LET id == IF hasId THEN d.id ELSE d.user.id
            d1 == [k \in DOMAIN d \cup {"id"} |-> IF k = "id" THEN id ELSE d[k]]
            m0 == NewMember(id, d1)
        IN  IF c.kind # "undefined"
            THEN IF hasUser
                 THEN [threw |-> FALSE, error |-> "",
                       member |-> [attrs |-> m0, club |-> c,
                                   user |-> CachedUser(d.user.id)],
                       users |-> UsersAdd(users, d.user),
                       voiceStates |-> MemberUpdateVoice(vs, m0, d1)]
                 ELSE IF id \in DOMAIN users
                 THEN [threw |-> FALSE, error |-> "",
                       member |-> [attrs |-> m0, club |-> c,
                                   user |-> CachedUser(id)],
                       users |-> users,
                       voiceStates |-> MemberUpdateVoice(vs, m0, d1)]
                 ELSE ThrewError("Error", users, vs)
            ELSE [threw |-> FALSE, error |-> "",
                  member |-> [attrs |-> m0, club |-> c,
                              user |-> IF hasUser THEN OwnUser(d.user)
                                       ELSE NullUser],
                  users |-> users, voiceStates |-> vs]

\* a constructor that leaves user null where the code throws
MemberConstructor_NullUser(d, c, users, vs) ==
    LET hasId   == Truthy(Get(d, "id"))
        hasUser == "user" \in DOMAIN d
    IN  IF ~hasId /\ ~hasUser
        THEN ThrewError("TypeError", users, vs)
        ELSE
        LET id == IF hasId THEN d.id ELSE d.user.id
            d1 == [k \in DOMAIN d \cup {"id"} |-> IF k = "id" THEN id ELSE d[k]]
            m0 == NewMember(id, d1)
        IN  IF c.kind # "undefined"
            THEN [threw |-> FALSE, error |-> "",
                  member |-> [attrs |-> m0, club |-> c,
                              user |-> IF id \in DOMAIN users THEN CachedUser(id)
                                       ELSE IF hasUser THEN CachedUser(d.user.id)
                                       ELSE NullUser],
                  users |-> IF id \notin DOMAIN users /\ hasUser
                            THEN UsersAdd(users, d.user) ELSE users,
                  voiceStates |-> MemberUpdateVoice(vs, m0, d1)]
            ELSE [threw |-> FALSE, error |-> "",
                  member |-> [attrs |-> m0, club |-> c,
                              user |-> IF hasUser THEN OwnUser(d.user)
                                       ELSE NullUser],
                  users |-> users, voiceStates |-> vs]

\* new Member(data, club, client) with client.users = users and
\* club.voiceStates = vs: whether it threw, the member built, and the two
\* registries afterwards.  super(data.id || data.user.id) throws a TypeError
\* when the payload has neither; data.id is filled in from data.user.id
MemberConstructor(d, c, users, vs) ==
    LET hasId   == Truthy(Get(d, "id"))
        hasUser == "user" \in DOMAIN d
    IN  IF ~hasId /\ ~hasUser
        THEN ThrewError("TypeError", users, vs)
        ELSE
        LET id == IF hasId THEN d.id ELSE d.user.id
            d1 == [k \in DOMAIN d \cup {"id"} |-> IF k = "id" THEN id ELSE d[k]]
            m0 == NewMember(id, d1)
        IN  IF c.kind # "undefined"
            THEN IF id \in DOMAIN users
                 THEN [threw |-> FALSE, error |-> "",
                       member |-> [attrs |-> m0, club |-> c,
                                   user |-> CachedUser(id)],
                       users |-> users,
                       voiceStates |-> MemberUpdateVoice(vs, m0, d1)]
                 ELSE IF hasUser
                 THEN [threw |-> FALSE, error |-> "",
                       member |-> [attrs |-> m0, club |-> c,
                                   user |-> CachedUser(d.user.id)],
                       users |-> UsersAdd(users, d.user),
                       voiceStates |-> MemberUpdateVoice(vs, m0, d1)]
                 ELSE ThrewError("Error", users, vs)
            ELSE [threw |-> FALSE, error |-> "",
                  member |-> [attrs |-> m0, club |-> c,
                              user |-> IF hasUser THEN OwnUser(d.user)
                                       ELSE NullUser],
                  users |-> users, voiceStates |-> vs]

\* club.members.add(data, club): the member registered under data.id is merged
\* with the payload, or a Member is constructed and inserted; a constructor
\* that throws inserts nothing
MembersAdd(ms, d, c, users, vs) ==
    IF d.id \in DOMAIN ms
    THEN [threw |-> FALSE, error |-> "",
          members |-> [ms EXCEPT ![d.id].attrs = MemberUpdate(@, d)],
          users |-> users,
          voiceStates |-> MemberUpdateVoice(vs, ms[d.id].attrs, d)]
    ELSE LET r == MemberConstructor(d, c, users, vs)
         IN  IF r.threw
             THEN [threw |-> TRUE, error |-> r.error, members |-> ms,
                   users |-> users, voiceStates |-> vs]
             ELSE [threw |-> FALSE, error |-> "",
                   members |-> [x \in DOMAIN ms \cup {d.id} |->
                                   IF x = d.id THEN r.member ELSE ms[x]],
                   users |-> r.users, voiceStates |-> r.voiceStates]

\* club.members.update(data): merge only, nothing happens for an unknown id
MembersUpdate(ms, d, vs) ==
    IF d.id \in DOMAIN ms
    THEN [members |-> [ms EXCEPT ![d.id].attrs = MemberUpdate(@, d)],
          voiceStates |-> MemberUpdateVoice(vs, ms[d.id].attrs, d)]
    ELSE [members |-> ms, voiceStates |-> vs]

----------------------------------------------------------------------------
(* ClubChannel.update *)

\* a name is the sequence of its characters
Str_nsfw == <<"n", "s", "f", "w">>
Str_nsfwDash == <<"n", "s", "f", "w", "-">>

\* name.startsWith(prefix)
StartsWith(name, prefix) ==
    /\ Len(name) >= Len(prefix)
    /\ SubSeq(name, 1, Len(prefix)) = prefix

\* this.name.length === 4 ? this.name === "nsfw" : this.name.startsWith("nsfw-")
NsfwName(name) ==
    IF Len(name) = 4 THEN name = Str_nsfw ELSE StartsWith(name, Str_nsfwDash)

\* a || b, where a is a boolean
OrElse(a, b) == IF a THEN "true" ELSE b

\* a permission_overwrites value: null, or a list of overwrite payloads
NullList == [null |-> TRUE, list |-> <<>>]
List(l) == [null |-> FALSE, list |-> l]
\* a truthy permission_overwrites that is no array: it has no forEach
NotAList == [null |-> FALSE, list |-> <<>>, notArray |-> TRUE]

\* the overwrites of the payload added to the registry the channel has
ChannelUpdate_MergeOverwrites(ch, d) ==
    LET name == IF "name" \in DOMAIN d THEN d.name ELSE ch.name
    IN  [ type     |-> IF Get(d, "type") # "undefined" THEN d.type ELSE ch.type,
          name     |-> name,
          position |-> IF Get(d, "position") # "undefined"
                       THEN d.position ELSE ch.position,
          parentID |-> IF Get(d, "parent_id") # "undefined"
                       THEN d.parent_id ELSE ch.parentID,
          nsfw     |-> OrElse(NsfwName(name), Get(d, "nsfw")),
          permissionOverwrites |->
              IF "permission_overwrites" \in DOMAIN d
                 /\ ~d.permission_overwrites.null
              THEN OverwritesAddAll(ch.permissionOverwrites,
                                    d.permission_overwrites.list)
              ELSE ch.permissionOverwrites ]

\* the attributes of the channel after update(data)
ChannelUpdate(ch, d) ==
    LET name == IF "name" \in DOMAIN d THEN d.name ELSE ch.name
    IN  [ type     |-> IF Get(d, "type") # "undefined" THEN d.type ELSE ch.type,
          name     |-> name,
          position |-> IF Get(d, "position") # "undefined"
                       THEN d.position ELSE ch.position,
          parentID |-> IF Get(d, "parent_id") # "undefined"
                       THEN d.parent_id ELSE ch.parentID,
          nsfw     |-> OrElse(NsfwName(name), Get(d, "nsfw")),
          permissionOverwrites |->
              IF "permission_overwrites" \in DOMAIN d
                 /\ ~d.permission_overwrites.null
              THEN OverwritesAddAll(EmptyCollection, d.permission_overwrites.list)
              ELSE ch.permissionOverwrites ]

\* whether update(data) throws: forEach is missing on a value that is no
\* array (line 47), or an entry of the list cannot be added (line 48)
ChannelUpdateThrows(d) ==
    /\ "permission_overwrites" \in DOMAIN d
    /\ ~d.permission_overwrites.null
    /\ \/ "notArray" \in DOMAIN d.permission_overwrites
       \/ \E i \in DOMAIN d.permission_overwrites.list :
             ~CanAdd(d.permission_overwrites.list[i])

\* the ClubChannel constructor: update(data) on a channel with no attribute
NewChannel(d) ==
    ChannelUpdate([ type     |-> "undefined",
                    name     |-> <<>>,
                    position |-> "undefined",
                    parentID |-> "undefined",
                    nsfw     |-> "undefined",
                    permissionOverwrites |-> EmptyCollection ], d)

----------------------------------------------------------------------------
(* Inputs *)

\* role masks of the club's roles
RoleMasks == {{"readMessages"}, {"sendMessages"}, {"administrator"}}

\* the (allow, deny) pairs an overwrite of the channel carries
OverwriteMasks ==
    { [allow |-> {},               deny |-> {"readMessages"}],
      [allow |-> {"sendMessages"}, deny |-> {}],
      [allow |-> {},               deny |-> {"sendMessages"}],
      [allow |-> {"readMessages"},
       deny  |-> {"readMessages", "sendMessages", "administrator"}] }

\* PermissionOverwrite.type of the overwrite keyed by id
OverwriteType(id) == IF id \in RoleIDs \cup {ClubID} THEN "role" ELSE "member"

\* the role registries of a club: any of its roles may be missing
RoleRegistries ==
    UNION {[ids -> RoleMasks] : ids \in SUBSET ({ClubID} \cup RoleIDs)}

\* the overwrite registries of a channel
OverwriteRegistries ==
    UNION { {[id \in ids |-> [type  |-> OverwriteType(id),
                              allow |-> f[id].allow,
                              deny  |-> f[id].deny]] : f \in [ids -> OverwriteMasks]}
            : ids \in SUBSET ({ClubID, MemberID} \cup RoleIDs) }

\* the lists of role ids a member holds
RoleLists == UNION {[1..n -> RoleIDs] : n \in 0..MaxRoles}

Str_gen == <<"g", "e", "n">>
Str_nsfx == <<"n", "s", "f", "x">>
Str_nsfwDashX == <<"n", "s", "f", "w", "-", "x">>
Str_nsfwx == <<"n", "s", "f", "w", "x">>

\* the payload a channel is constructed from
ChannelSnapshots ==
    { [type |-> "0", name |-> Str_gen, position |-> "0", parent_id |-> "null",
       permission_overwrites |-> List(<<>>)],
      [type |-> "0", name |-> Str_gen, position |-> "0", nsfw |-> "true",
       permission_overwrites |-> List(<<>>)] }

\* the payload a member is constructed from
MemberSnapshots ==
    { [id |-> MemberID, roles |-> <<>>, joined_at |-> IsoDate],
      [id |-> MemberID, roles |-> <<"r1">>, joined_at |-> IsoDate,
       nick |-> "nick0", premium_since |-> "null"] }

\* the snapshots a club is constructed from
ClubFalsyValue ==
    [k \in ClubKeys |->
        CASE k \in {"name", "region", "preferred_locale"} -> ""
          [] k \in {"large"} -> "false"
          [] k \in {"verification_level", "afk_timeout", "default_message_notifications",
                    "mfa_level", "max_presences", "explicit_content_filter",
                    "premium_tier", "premium_subscription_count", "max_members",
                    "max_video_channel_users"} -> "0"
          [] OTHER -> "null"]

ClubOtherValue ==
    [k \in ClubKeys |->
        CASE k \in {"name", "region", "preferred_locale"} -> "a"
          [] k \in {"large"} -> "true"
          [] k \in {"verification_level", "afk_timeout", "default_message_notifications",
                    "mfa_level", "max_presences", "explicit_content_filter",
                    "premium_tier", "premium_subscription_count", "max_members",
                    "max_video_channel_users"} -> "1"
          [] k = "owner_id" -> MemberID
          [] k \in {"features", "emojis"} -> "[x]"
          [] OTHER -> "h1"]

ClubSnapshots ==
    { ClubOtherValue,
      [k \in {"name", "owner_id", "region"} |-> ClubOtherValue[k]] }

\* the payloads merged into a club
ClubPayloads ==
    {EmptyPayload, ClubFalsyValue, ClubOtherValue}
    \cup {Single(k, ClubFalsyValue[k]) : k \in ClubKeys}
    \cup {Single(k, ClubOtherValue[k]) : k \in ClubKeys}

\* the payloads merged into a member
MemberPayloads ==
    {EmptyPayload}
    \cup {Single("status", v) : v \in {"online", "offline"}}
    \cup {Single("game", v) : v \in {"null", "game1"}}
    \cup {Single("joined_at", v) : v \in {"null", IsoDate}}
    \cup {Single("client_status", v) :
            v \in {NullObject, [web |-> "online"],
                   [web |-> "idle", desktop |-> "dnd", mobile |-> "online"]}}
    \cup {Single("activities", v) : v \in {"null", "[game1]"}}
    \cup {Single("premium_since", v) : v \in {"null", "0"}}
    \cup {Single("nick", v) : v \in {"null", "", "nick1"}}
    \cup {Single("roles", v) : v \in {<<>>, <<"r2">>, <<"r2", "r1">>}}
    \cup { [id |-> MemberID, status |-> "online", game |-> "game1",
            client_status |-> [desktop |-> "online"], activities |-> "[game1]"],
           [id |-> MemberID, nick |-> "null", roles |-> <<"r1">>,
            premium_since |-> "0"] }
    \cup { [id |-> MemberID, channel_id |-> "null", mute |-> "false",
            deaf |-> "false", suppress |-> "false"],
           [id |-> MemberID, channel_id |-> "v1", mute |-> "false",
            deaf |-> "false", suppress |-> "false"],
           [id |-> MemberID, mute |-> "true"],
           [id |-> MemberID, channel_id |-> "null", mute |-> "true",
            deaf |-> "false", suppress |-> "false"],
           [id |-> MemberID, mute |-> "false", deaf |-> "false"] }

\* the overwrite payloads of a permission_overwrites list
OverwritePayloads ==
    [ c  |-> [id |-> ClubID, type |-> "role", allow |-> {},
              deny |-> {"readMessages"}],
      r1 |-> [id |-> "r1", type |-> "role", allow |-> {"sendMessages"},
              deny |-> {}],
      m  |-> [id |-> MemberID, type |-> "member", allow |-> {"readMessages"},
              deny |-> {"sendMessages"}] ]

\* the payloads merged into a channel
ChannelPayloads ==
    {EmptyPayload}
    \cup {Single("type", v) : v \in {"0", "2"}}
    \cup {Single("name", v) : v \in {Str_gen, Str_nsfw, Str_nsfx, Str_nsfwDashX, Str_nsfwx}}
    \cup {Single("position", v) : v \in {"0", "1"}}
    \cup {Single("parent_id", v) : v \in {"null", "cat1"}}
    \cup {Single("nsfw", v) : v \in {"null", "false", "true"}}
    \cup {Single("permission_overwrites", v) :
            v \in {NullList, List(<<>>), List(<<OverwritePayloads.c>>),
                   List(<<OverwritePayloads.r1, OverwritePayloads.m>>)}}
    \cup { [name |-> Str_nsfw, nsfw |-> "false"],
           [name |-> Str_gen, nsfw |-> "true", position |-> "1"] }

----------------------------------------------------------------------------
(* The client, and the club before its constructor has filled it *)

\* a client with nothing cached: users, whether clubs holds an earlier Club of
\* this id, channelClubMap, bot, options.seedVoiceConnections, user.id,
\* whether voiceConnections holds one for this club, the events emitted, the
\* callbacks handed to process.nextTick and the channels joinVoiceChannel
\* was called with
NewClient ==
    [ users          |-> EmptyCollection,
      oldClub        |-> FALSE,
      channelClubMap |-> EmptyCollection,
      bot            |-> TRUE,
      seed           |-> FALSE,
      userID         |-> OtherID,
      voiceConnection |-> FALSE,
      events         |-> <<>>,
      ticks          |-> <<>>,
      joined         |-> <<>> ]

\* the fields only the Club constructor assigns, before it has run
NotBuilt ==
    [ constructed        |-> FALSE,
      unavailable        |-> "undefined",
      joinedAt           |-> "undefined",
      memberCount        |-> "undefined",
      widgetEnabled      |-> "undefined",
      widgetChannelID    |-> "undefined",
      approximateMemberCount   |-> "undefined",
      approximatePresenceCount |-> "undefined",
      pendingVoiceStates |-> <<>>,
      pending            |-> FALSE ]

NoCache ==
    /\ client = NewClient
    /\ members = EmptyCollection
    /\ channels = EmptyCollection
    /\ built = NotBuilt

----------------------------------------------------------------------------
(* Permission resolution: the inputs are drawn, then resolved *)

InitPerm ==
    /\ club \in {ClubUpdate(NewClub, Single("owner_id", o)) : o \in {MemberID, OtherID}}
    /\ roles \in RoleRegistries
    /\ member \in {NewMember(MemberID, [id |-> MemberID, roles |-> rs]) : rs \in RoleLists}
    /\ channel \in {[NewChannel([name |-> Str_gen, type |-> "0"])
                        EXCEPT !.permissionOverwrites = ow] : ow \in OverwriteRegistries}
    /\ voiceStates = EmptyCollection
    /\ data = EmptyPayload
    /\ op = "init"
    /\ result = Permission({})
    /\ merges = 0
    /\ NoCache

\* club.permissionsOf(member)
CallClubPermissionsOf ==
    /\ op' = "Club.permissionsOf"
    /\ result' = ClubPermissionsOf(member)
    /\ UNCHANGED <<club, roles, member, voiceStates, channel, data, merges>>
    /\ UNCHANGED cacheVars

\* channel.permissionsOf(member)
CallChannelPermissionsOf ==
    /\ op' = "ClubChannel.permissionsOf"
    /\ result' = ChannelPermissionsOf(member)
    /\ UNCHANGED <<club, roles, member, voiceStates, channel, data, merges>>
    /\ UNCHANGED cacheVars

NextPerm == CallClubPermissionsOf \/ CallChannelPermissionsOf

SpecPerm == InitPerm /\ [][NextPerm]_vars

----------------------------------------------------------------------------
(* Club merges *)

InitClub ==
    /\ club \in {ClubUpdate(NewClub, d) : d \in ClubSnapshots}
    /\ roles = [r \in {ClubID} |-> {"readMessages"}]
    /\ member = NewMember(MemberID, [id |-> MemberID, roles |-> <<>>])
    /\ channel = NewChannel([name |-> Str_gen, type |-> "0"])
    /\ voiceStates = EmptyCollection
    /\ data = EmptyPayload
    /\ op = "init"
    /\ result = Permission({})
    /\ merges = 0
    /\ NoCache

\* club.update(d)
CallClubUpdate ==
    /\ merges < MaxClubMerges
    /\ \E d \in ClubPayloads :
          /\ club' = ClubUpdate(club, d)
          /\ data' = d
    /\ op' = "Club.update"
    /\ merges' = merges + 1
    /\ UNCHANGED <<roles, member, voiceStates, channel, result>>
    /\ UNCHANGED cacheVars

NextClub == CallClubUpdate

SpecClub == InitClub /\ [][NextClub]_vars

----------------------------------------------------------------------------
(* Member and ClubChannel merges *)

InitMerge ==
    /\ club = ClubUpdate(NewClub, [name |-> "a", owner_id |-> OtherID])
    /\ roles = [r \in {ClubID} |-> {"readMessages"}]
    /\ member \in {NewMember(MemberID, d) : d \in MemberSnapshots}
    /\ channel \in {NewChannel(d) : d \in ChannelSnapshots}
    /\ voiceStates \in {EmptyCollection,
                        [x \in {MemberID} |->
                            [DefaultVoiceState EXCEPT !.channelID = "v0"]]}
    /\ data = EmptyPayload
    /\ op = "init"
    /\ result = Permission({})
    /\ merges = 0
    /\ NoCache

\* member.update(d)
CallMemberUpdate ==
    /\ merges < MaxMerges
    /\ \E d \in MemberPayloads :
          /\ member' = MemberUpdate(member, d)
          /\ voiceStates' = MemberUpdateVoice(voiceStates, member, d)
          /\ data' = d
    /\ op' = "Member.update"
    /\ merges' = merges + 1
    /\ UNCHANGED <<club, roles, channel, result>>
    /\ UNCHANGED cacheVars

\* channel.update(d)
CallChannelUpdate ==
    /\ merges < MaxMerges
    /\ \E d \in ChannelPayloads :
          /\ channel' = ChannelUpdate(channel, d)
          /\ data' = d
    /\ op' = "ClubChannel.update"
    /\ merges' = merges + 1
    /\ UNCHANGED <<club, roles, member, voiceStates, result>>
    /\ UNCHANGED cacheVars

\* member.voiceState
CallVoiceState ==
    /\ op' = "Member.voiceState"
    /\ result' = MemberVoiceState(voiceStates, member)
    /\ UNCHANGED <<club, roles, member, voiceStates, channel, data, merges>>
    /\ UNCHANGED cacheVars

NextMerge == CallMemberUpdate \/ CallChannelUpdate \/ CallVoiceState

SpecMerge == InitMerge /\ [][NextMerge]_vars

----------------------------------------------------------------------------
(* Permission resolution: properties (SpecPerm) *)

\* the club-scope mask of the member
Base == ClubPermissionsOf(member)

\* the member is not an administrator at club scope, and the resolution ran
NonAdministrator == ~Base.threw /\ Base.allow \cap Permissions_administrator = {}

\* the overwrite keyed by id, empty masks when the channel has none
OverwriteOrEmpty(id) ==
    IF id \in DOMAIN channel.permissionOverwrites
    THEN channel.permissionOverwrites[id]
    ELSE [type |-> OverwriteType(id), allow |-> {}, deny |-> {}]

\* the roles of member.roles that have an overwrite on the channel
RolesWithOverwrite == Range(member.roles) \cap DOMAIN channel.permissionOverwrites

\* C1: for a member who is not an administrator at club scope,
\* ClubChannel.permissionsOf returns
\* ((((base AND NOT E.deny) OR E.allow) AND NOT D) OR A) AND NOT M.deny) OR M.allow
\* with E the everyone overwrite, D and A the pooled role overwrites and M the
\* member overwrite, a missing overwrite counting as empty masks.
C1_ChannelFormula ==
    (op = "ClubChannel.permissionsOf" /\ NonAdministrator) =>
        LET E == OverwriteOrEmpty(ClubID)
            D == UNION {channel.permissionOverwrites[r].deny : r \in RolesWithOverwrite}
            A == UNION {channel.permissionOverwrites[r].allow : r \in RolesWithOverwrite}
            M == OverwriteOrEmpty(member.id)
        IN  result = Permission(
                ((((((Base.allow \ E.deny) \cup E.allow) \ D) \cup A) \ M.deny) \cup M.allow))

\* a non-administrator resolved on a channel that has an everyone overwrite,
\* overwrites for two held roles, and a member overwrite
C1_Witness ==
    /\ op = "ClubChannel.permissionsOf"
    /\ NonAdministrator
    /\ {ClubID, MemberID} \subseteq DOMAIN channel.permissionOverwrites
    /\ Cardinality(RolesWithOverwrite) = 2
    /\ result.allow # Base.allow

\* C2: when a role the member holds (the everyone role included) has the
\* administrator bit, Club.permissionsOf and ClubChannel.permissionsOf both
\* return the full mask.
C2_AdministratorRoleGivesAll ==
    ( /\ ClubID \in DOMAIN roles
      /\ \E r \in (Range(member.roles) \cup {ClubID}) \cap DOMAIN roles :
            roles[r] \cap Permissions_administrator # {} )
    => /\ op = "Club.permissionsOf" => result = Permission(Permissions_all)
       /\ op = "ClubChannel.permissionsOf" => result = Permission(Permissions_all)

\* C3: Club.permissionsOf returns the full mask for the owner, whatever the
\* roles of the member and whatever the everyone role is.
C3_OwnerGetsAll ==
    (op = "Club.permissionsOf" /\ member.id = club.ownerID) =>
        result = Permission(Permissions_all)

\* the owner holds no role and the club has no everyone role to consult
C3_Witness ==
    /\ op = "Club.permissionsOf"
    /\ member.id = club.ownerID
    /\ member.roles = <<>>
    /\ ClubID \notin DOMAIN roles
    /\ result = Permission(Permissions_all)

\* C4: for a member who is not the owner and holds no administrator role,
\* Club.permissionsOf returns the everyone role's mask OR-ed with the mask of
\* every role of member.roles that exists in club.roles.
C4_ClubScopeAccumulates ==
    ( /\ op = "Club.permissionsOf"
      /\ member.id # club.ownerID
      /\ ClubID \in DOMAIN roles
      /\ \A r \in Range(member.roles) \cap DOMAIN roles :
            roles[r] \cap Permissions_administrator = {} )
    => /\ result = Permission(roles[ClubID] \cup
                      UNION {roles[r] : r \in Range(member.roles) \cap DOMAIN roles})
       /\ roles[ClubID] \subseteq result.allow

\* the member holds a role the club does not have and a role that adds a bit
C4_Witness ==
    /\ op = "Club.permissionsOf"
    /\ member.id # club.ownerID
    /\ ClubID \in DOMAIN roles
    /\ Range(member.roles) \ DOMAIN roles # {}
    /\ \E r \in Range(member.roles) \cap DOMAIN roles :
          /\ roles[r] \cap Permissions_administrator = {}
          /\ roles[r] \ roles[ClubID] # {}
    /\ roles[ClubID] \subseteq result.allow
    /\ result.allow # roles[ClubID]
    /\ result.allow # Permissions_all

\* the scenario of the overwrite precedence: base = readMessages, the everyone
\* overwrite denies readMessages, the held roles' overwrites allow
\* sendMessages, the member overwrite denies sendMessages
PrecedenceScenario ==
    /\ NonAdministrator
    /\ Base.allow = {"readMessages"}
    /\ {ClubID, MemberID} \subseteq DOMAIN channel.permissionOverwrites
    /\ channel.permissionOverwrites[ClubID].deny = {"readMessages"}
    /\ channel.permissionOverwrites[ClubID].allow = {}
    /\ RolesWithOverwrite # {}
    /\ \A r \in RolesWithOverwrite :
          /\ channel.permissionOverwrites[r].allow = {"sendMessages"}
          /\ channel.permissionOverwrites[r].deny = {}
    /\ channel.permissionOverwrites[MemberID].deny = {"sendMessages"}
    /\ channel.permissionOverwrites[MemberID].allow = {}

\* C5: for a non-administrator the member overwrite wins: every bit it allows
\* is set, every bit it denies and does not allow is clear; in the precedence
\* scenario neither readMessages nor sendMessages is set.
C5_MemberOverwriteWins ==
    (op = "ClubChannel.permissionsOf" /\ NonAdministrator) =>
        /\ MemberID \in DOMAIN channel.permissionOverwrites =>
              LET M == channel.permissionOverwrites[MemberID]
              IN  /\ M.allow \subseteq result.allow
                  /\ (M.deny \ M.allow) \cap result.allow = {}
        /\ PrecedenceScenario =>
              result.allow \cap {"readMessages", "sendMessages"} = {}

C5_Witness ==
    /\ op = "ClubChannel.permissionsOf"
    /\ PrecedenceScenario
    /\ result = Permission({})

\* C6: when a non-administrator holds a role whose overwrite denies a bit and
\* another role whose overwrite allows it, and the member overwrite does not
\* deny it, the bit is set, in either order of the two roles.
C6_RoleOverwritesPooled ==
    (op = "ClubChannel.permissionsOf" /\ NonAdministrator) =>
        \A r1 \in RolesWithOverwrite, r2 \in RolesWithOverwrite, bit \in Bits :
            ( /\ r1 # r2
              /\ bit \in channel.permissionOverwrites[r1].deny
              /\ bit \in channel.permissionOverwrites[r2].allow
              /\ bit \notin OverwriteOrEmpty(MemberID).deny )
            => bit \in result.allow

\* the allowing role comes first in member.roles, the denying role second
C6_Witness ==
    /\ op = "ClubChannel.permissionsOf"
    /\ NonAdministrator
    /\ Len(member.roles) = 2
    /\ Range(member.roles) \subseteq DOMAIN channel.permissionOverwrites
    /\ "sendMessages" \in channel.permissionOverwrites[member.roles[1]].allow
    /\ "sendMessages" \in channel.permissionOverwrites[member.roles[2]].deny
    /\ "sendMessages" \notin channel.permissionOverwrites[member.roles[2]].allow
    /\ "sendMessages" \notin OverwriteOrEmpty(MemberID).deny
    /\ "sendMessages" \in result.allow

----------------------------------------------------------------------------
(* Club merges: properties (SpecClub) *)

\* C7: Club.update keeps every attribute whose key the payload lacks and sets
\* every attribute whose key the payload carries to the payload's value, also
\* when that value is null, 0, "" or false.
C7_ClubUpdatePresenceAware ==
    [][op' = "Club.update" =>
          \A k \in ClubKeys :
              IF k \in DOMAIN data'
              THEN club'[ClubFields[k]] = data'[k]
              ELSE club'[ClubFields[k]] = club[ClubFields[k]]]_vars

\* a second merge carried only icon: null, and the falsy values of the first
\* merge are still there
C7_Witness ==
    /\ op = "Club.update"
    /\ merges = 2
    /\ DOMAIN data = {"icon"}
    /\ club.icon = "null"
    /\ club.name = ""
    /\ club.afkTimeout = "0"
    /\ club.large = "false"

----------------------------------------------------------------------------
(* Member and ClubChannel merges: properties (SpecMerge) *)

\* C8: Member.update leaves unchanged every attribute whose key is absent
\* from the payload.
C8_MemberUpdateKeepsAbsent ==
    [][op' = "Member.update" =>
          \A k \in MemberKeys \ DOMAIN data' :
              member'[MemberFields[k]] = member[MemberFields[k]]]_vars

\* a merge of status alone after an earlier merge that set nick and roles
C8_Witness ==
    /\ op = "Member.update"
    /\ merges = 2
    /\ DOMAIN data = {"status"}
    /\ member.status = "online"
    /\ member.nick = "nick1"
    /\ member.joinedAt = "1577836800000"

\* the scalar keys of a member payload that are assigned as they come
MemberPlainKeys == {"nick", "game", "status", "activities", "premium_since"}

\* the registry that holds exactly the overwrites of the list
IsRegistryOf(registry, list) ==
    /\ DOMAIN registry = {list[i].id : i \in 1..Len(list)}
    /\ \A i \in 1..Len(list) :
          registry[list[i].id] =
              [type |-> list[i].type, allow |-> list[i].allow, deny |-> list[i].deny]

C10_NsfwKeptWithoutNameAndFlag ==
    [][(op' = "ClubChannel.update" /\ {"name", "nsfw"} \cap DOMAIN data' = {}) =>
          channel'.nsfw = channel.nsfw]_vars

\* C11: after a ClubChannel merge nsfw is true when the name is "nsfw" or
\* starts with "nsfw-", true when the payload carries nsfw: true, and the
\* boolean false when the payload carries no nsfw and the name matches neither.
C11_NsfwDerivation ==
    op = "ClubChannel.update" =>
        /\ NsfwName(channel.name) => channel.nsfw = "true"
        /\ Get(data, "nsfw") = "true" => channel.nsfw = "true"
        /\ ("nsfw" \notin DOMAIN data /\ ~NsfwName(channel.name)) =>
              channel.nsfw = "false"

IsDisconnect(d) ==
    /\ {"mute", "deaf", "suppress", "channel_id"} \subseteq DOMAIN d
    /\ d.channel_id = "null"
    /\ d.mute = "false" /\ d.deaf = "false" /\ d.suppress = "false"

\* the payload of a voice update that connects or sets a flag
IsVoiceAttach(d) ==
    /\ "mute" \in DOMAIN d
    /\ \/ Truthy(Get(d, "channel_id"))
       \/ Truthy(Get(d, "mute"))
       \/ Truthy(Get(d, "deaf"))
       \/ Truthy(Get(d, "suppress"))

\* the detached all-default state keyed by the member's id
DetachedDefault(id) ==
    [ id |-> id, registered |-> FALSE,
      state |-> [channelID |-> "null", mute |-> "false",
                 deaf |-> "false", suppress |-> "false"] ]

\* C13: a full disconnect merged into a member that has a voice state removes
\* the state from club.voiceStates, and member.voiceState then gives a
\* detached default state keyed by the member's id.
C13_DisconnectRemovesVoiceState ==
    [][(op' = "Member.update" /\ IsDisconnect(data')
            /\ member.id \in DOMAIN voiceStates) =>
          /\ member.id \notin DOMAIN voiceStates'
          /\ MemberVoiceState(voiceStates', member') = DetachedDefault(member.id)]_vars

\* voiceState read after the disconnect was merged
C13_Witness ==
    /\ op = "Member.voiceState"
    /\ IsDisconnect(data)
    /\ merges >= 1
    /\ MemberID \notin DOMAIN voiceStates
    /\ result = DetachedDefault(MemberID)

\* C14: a voice payload with a channel id (or a flag set) merged into a member
\* that has no voice state registers a voice state under the member's id.
C14_VoiceStateCreated ==
    [][(op' = "Member.update" /\ IsVoiceAttach(data')
            /\ member.id \notin DOMAIN voiceStates) =>
          member.id \in DOMAIN voiceStates']_vars

\* C15: member.voiceState gives the state registered under the member's id
\* when there is one, else a detached default state keyed by the member's id,
\* and the read leaves club.voiceStates as it was.
C15_VoiceStateGetter ==
    [][op' = "Member.voiceState" =>
          /\ voiceStates' = voiceStates
          /\ result' = IF member.id \in DOMAIN voiceStates
                       THEN [id |-> member.id, registered |-> TRUE,
                             state |-> voiceStates[member.id]]
                       ELSE DetachedDefault(member.id)]_vars

\* the read of a registered state that an earlier merge had muted
C15_Witness ==
    /\ op = "Member.voiceState"
    /\ result.registered
    /\ result.id = MemberID
    /\ result.state = voiceStates[MemberID]
    /\ result.state.mute = "true"
    /\ result.state.channelID = "v0"

----------------------------------------------------------------------------
(* Member construction: members are built against a users registry *)

\* the user data a payload can embed
UserData(id, name) == [id |-> id, username |-> name]

\* the users registries the client starts with
UserRegistries ==
    { EmptyCollection,
      [x \in {MemberID} |-> [username |-> "old"]],
      [x \in {MemberID, OtherID} |-> [username |-> "old"]] }

\* member payloads that carry an id, as club.members.add receives them
MemberAddPayloads ==
    UNION { { [id |-> i],
              [id |-> i, nick |-> "nick1"],
              [id |-> i, user |-> UserData(i, "old")],
              [id |-> i, user |-> UserData(i, "new")],
              [id |-> i, user |-> UserData(i, "new"), nick |-> "nick1",
               roles |-> <<"r1">>, joined_at |-> IsoDate] } :
            i \in {MemberID, OtherID} }

\* the payloads a Member is constructed from directly
MemberCtorPayloads ==
    MemberAddPayloads
    \cup { EmptyPayload,
           Single("nick", "nick1"),
           Single("user", UserData(MemberID, "new")) }

\* the patches club.members.update receives
MemberPatchPayloads ==
    { [id |-> MemberID, nick |-> "nick2"],
      [id |-> OtherID, status |-> "online", game |-> "game1"],
      [id |-> MemberID, roles |-> <<"r2">>],
      [id |-> MemberID, channel_id |-> "v1", mute |-> "true",
       deaf |-> "false", suppress |-> "false"] }

InitMember ==
    /\ club = ClubUpdate(NewClub, [name |-> "a", owner_id |-> OtherID])
    /\ roles = [r \in {ClubID} |-> {"readMessages"}]
    /\ member = NewMember(MemberID, [id |-> MemberID])
    /\ channel \in {NewChannel(d) : d \in {[id |-> "c1", name |-> Str_gen]}}
    /\ voiceStates = EmptyCollection
    /\ data = EmptyPayload
    /\ op = "init"
    /\ result = [threw |-> FALSE, error |-> ""]
    /\ merges = 0
    /\ client \in {[NewClient EXCEPT !.users = u] : u \in UserRegistries}
    /\ members = EmptyCollection
    /\ channels = EmptyCollection
    /\ built = NotBuilt

\* club.members.add(d, club)
AddMember ==
    /\ merges < MaxMerges
    /\ \E d \in MemberAddPayloads :
          LET r == MembersAdd(members, d, ThisClub, client.users, voiceStates)
          IN  /\ members' = r.members
              /\ client' = [client EXCEPT !.users = r.users]
              /\ voiceStates' = r.voiceStates
              /\ result' = [threw |-> r.threw, error |-> r.error]
              /\ data' = d
    /\ op' = "members.add"
    /\ merges' = merges + 1
    /\ UNCHANGED <<club, roles, member, channel, channels, built>>

\* new Member(d, undefined, client): a member that belongs to no club
ConstructMember ==
    /\ merges < MaxMerges
    /\ \E d \in MemberCtorPayloads :
          LET r == MemberConstructor(d, NoClub, client.users, voiceStates)
          IN  /\ result' = [threw |-> r.threw, error |-> r.error,
                            member |-> r.member]
              /\ client' = [client EXCEPT !.users = r.users]
              /\ voiceStates' = r.voiceStates
              /\ data' = d
    /\ op' = "new Member"
    /\ merges' = merges + 1
    /\ UNCHANGED <<club, roles, member, channel, members, channels, built>>

\* club.members.update(d)
UpdateMember ==
    /\ merges < MaxMerges
    /\ \E d \in MemberPatchPayloads :
          LET r == MembersUpdate(members, d, voiceStates)
          IN  /\ members' = r.members
              /\ voiceStates' = r.voiceStates
              /\ data' = d
    /\ op' = "members.update"
    /\ merges' = merges + 1
    /\ UNCHANGED <<club, roles, member, channel, result, client, channels, built>>

NextMember == AddMember \/ ConstructMember \/ UpdateMember

SpecMember == InitMember /\ [][NextMember]_vars

----------------------------------------------------------------------------
(* Properties of Member construction *)

\* C16: every Member whose construction succeeded has a user that is not
\* null, whether or not a club was given, the user was cached, or the
\* payload embedded user data
C16_UserNeverNull ==
    /\ (op = "new Member" /\ ~result.threw) =>
           result.member.user.kind # "null"
    /\ \A id \in DOMAIN members : members[id].user.kind # "null"

\* C17: constructing a Member for a club when client.users has no entry for
\* the id and the payload embeds no user throws an Error, and neither
\* client.users nor club.members gains an entry for that id
C17_MissingUserThrows ==
    [][(/\ op' = "members.add"
        /\ data'.id \notin DOMAIN members
        /\ data'.id \notin DOMAIN client.users
        /\ "user" \notin DOMAIN data')
       => /\ result'.threw
          /\ result'.error = "Error"
          /\ data'.id \notin DOMAIN client'.users
          /\ data'.id \notin DOMAIN members'
          /\ client'.users = client.users
          /\ members' = members]_vars

C17_Witness ==
    /\ op = "members.add"
    /\ result.threw
    /\ "user" \notin DOMAIN data
    /\ data.id \notin DOMAIN client.users
    /\ data.id \notin DOMAIN members
    /\ merges = 2
    /\ OtherID \in DOMAIN members

\* C18: a club member's user is the entry of client.users under the member's
\* id, and neither constructing a member (also from a payload whose embedded
\* user data differs from the cached user) nor Member.update changes a field
\* of a user that was already cached
C18_CachedUserShared ==
    [][/\ \A id \in DOMAIN members' :
             /\ members'[id].user = CachedUser(id)
             /\ id \in DOMAIN client'.users
       /\ op' \in {"members.add", "members.update"} =>
             \A id \in DOMAIN client.users :
                 /\ id \in DOMAIN client'.users
                 /\ client'.users[id] = client.users[id]]_vars

C18_Witness ==
    /\ op = "members.add"
    /\ ~result.threw
    /\ "user" \in DOMAIN data
    /\ data.id \in DOMAIN members
    /\ members[data.id].user = CachedUser(data.id)
    /\ data.user.username = "new"
    /\ client.users[data.id].username = "old"
    /\ merges = 1

----------------------------------------------------------------------------
(* The Club constructor *)

\* the id of the shard the club belongs to
ShardID == "s0"

\* what client.emit was called with
Event(name, about) == [name |-> name, about |-> about, shard |-> ShardID]

\* this.roles.add(role, this): construct or merge a role, kept as its mask
RolesAdd(rs, r) ==
    [x \in DOMAIN rs \cup {r.id} |-> IF x = r.id THEN r.permissions ELSE rs[x]]

\* the constructor's progress is a record of the registries and lists it
\* fills: roles, channels, members, voiceStates of the club; users,
\* channelClubMap (map), events, ticks and joined of the client
BuildStart(cl) ==
    [ roles |-> EmptyCollection, channels |-> EmptyCollection,
      members |-> EmptyCollection, voiceStates |-> EmptyCollection,
      users |-> cl.users, map |-> cl.channelClubMap,
      events |-> cl.events, ticks |-> cl.ticks, joined |-> cl.joined ]

RECURSIVE RolesLoop(_, _)
\* for(const role of data.roles) this.roles.add(role, this)
RolesLoop(st, list) ==
    IF list = <<>> THEN st
    ELSE RolesLoop([st EXCEPT !.roles = RolesAdd(@, Head(list))], Tail(list))

\* Channel.from(channelData, client): the ClubChannel constructor runs with
\* club_id set, so club is client.clubs.get(club_id) or an object with the id
\* alone; a voice channel (type 2) has a voiceMembers registry
ChannelFrom(d, cl) ==
    [ attrs        |-> NewChannel(d),
      club         |-> IF cl.oldClub THEN OldClub ELSE PlaceholderClub,
      hasVoice     |-> Get(d, "type") = "2",
      voiceMembers |-> {} ]

\* this.channels.add(channel, client): construct or merge; the channel built
\* by Channel.from is inserted under an id not yet there, and merged as a
\* payload into the channel already there
ChannelsAdd(chs, id, ch) ==
    IF id \in DOMAIN chs
    THEN [chs EXCEPT ![id].attrs =
              ChannelUpdate(@, [type |-> ch.attrs.type, name |-> ch.attrs.name,
                                position |-> ch.attrs.position,
                                nsfw |-> ch.attrs.nsfw])]
    ELSE [x \in DOMAIN chs \cup {id} |-> IF x = id THEN ch ELSE chs[x]]

\* a loop body that leaves out channel.club = this
ChannelsLoopBody_NoBackReference(d, cl) == ChannelFrom(d, cl)

\* const channel = Channel.from(channelData, client); channel.club = this
ChannelsLoopBody(d, cl) == [ChannelFrom(d, cl) EXCEPT !.club = ThisClub]

RECURSIVE ChannelsLoop(_, _, _)
\* for(const channelData of data.channels): build the channel, point its club
\* at this Club, register it, and record it in client.channelClubMap
ChannelsLoop(st, list, cl) ==
    IF list = <<>> THEN st
    ELSE ChannelsLoop(
             [st EXCEPT
                 !.channels = ChannelsAdd(@, Head(list).id,
                                          ChannelsLoopBody(Head(list), cl)),
                 !.map = [x \in DOMAIN @ \cup {Head(list).id} |->
                             IF x = Head(list).id THEN ClubID ELSE @[x]]],
             Tail(list), cl)

\* the payload with data.id assigned
WithId(d, id) == [k \in DOMAIN d \cup {"id"} |-> IF k = "id" THEN id ELSE d[k]]

\* the progress after a registry call that returned r
Merged(st, r) ==
    [st EXCEPT !.members = r.members, !.voiceStates = r.voiceStates]

\* the progress after members.add returned r
MemberAdded(st, r) ==
    [st EXCEPT !.members = r.members, !.users = r.users,
               !.voiceStates = r.voiceStates]

RECURSIVE MembersLoop(_, _)
\* for(const member of data.members): member.id = member.user.id, then
\* this.members.add(member, this); the embedded user keeps the constructor
\* from throwing
MembersLoop(st, list) ==
    IF list = <<>> THEN st
    ELSE MembersLoop(
             MemberAdded(st, MembersAdd(st.members,
                                        WithId(Head(list), Head(list).user.id),
                                        ThisClub, st.users, st.voiceStates)),
             Tail(list))

\* a loop body that skips the presence of an unknown member without a word
PresencesLoopBody_Silent(st, p) ==
    IF p.user.id \notin DOMAIN st.members
    THEN st
    ELSE Merged(st, MembersUpdate(st.members, WithId(p, p.user.id),
                                  st.voiceStates))

\* one presence of data.presences: a presence of an unknown member emits
\* "debug" with the shard id and is skipped, any other is merged into its
\* member through this.members.update(presence)
PresencesLoopBody(st, p) ==
    IF p.user.id \notin DOMAIN st.members
    THEN [st EXCEPT !.events = Append(@, Event("debug", p.user.id))]
    ELSE Merged(st, MembersUpdate(st.members, WithId(p, p.user.id),
                                  st.voiceStates))

RECURSIVE PresencesLoop(_, _)
\* for(const presence of data.presences)
PresencesLoop(st, list) ==
    IF list = <<>> THEN st
    ELSE PresencesLoop(PresencesLoopBody(st, Head(list)), Tail(list))

\* a wiring that calls joinVoiceChannel on the spot
VoiceWired_JoinInside(st, v, cl) ==
    [st EXCEPT !.channels[v.channel_id].voiceMembers = @ \cup {v.user_id},
               !.joined = IF /\ cl.seed
                             /\ v.user_id = cl.userID
                             /\ ~cl.voiceConnection
                          THEN Append(@, v.channel_id)
                          ELSE @]

\* the progress after a voice-state entry v was applied: the channel's
\* voiceMembers has the member, and the local account's entry has scheduled
\* joinVoiceChannel
VoiceWired(st, v, cl) ==
    [st EXCEPT !.channels[v.channel_id].voiceMembers = @ \cup {v.user_id},
               !.ticks = IF /\ cl.seed
                            /\ v.user_id = cl.userID
                            /\ ~cl.voiceConnection
                         THEN Append(@, v.channel_id)
                         ELSE @]

\* one entry of data.voice_states: an entry of an unknown member is skipped;
\* a channel lookup that fails, or a channel without voiceMembers, throws
\* before members.update is called, emits "error" with the shard id and skips
\* the entry; otherwise the member is merged and added to the channel's
\* voiceMembers
VoiceStatesLoopBody(st, v, cl) ==
    IF v.user_id \notin DOMAIN st.members
    THEN st
    ELSE IF \/ v.channel_id \notin DOMAIN st.channels
            \/ ~st.channels[v.channel_id].hasVoice
    THEN [st EXCEPT !.events = Append(@, Event("error", v.user_id))]
    ELSE VoiceWired(Merged(st, MembersUpdate(st.members, WithId(v, v.user_id),
                                             st.voiceStates)),
                    v, cl)

RECURSIVE VoiceStatesLoop(_, _, _)
\* for(const voiceState of data.voice_states)
VoiceStatesLoop(st, list, cl) ==
    IF list = <<>> THEN st
    ELSE VoiceStatesLoop(VoiceStatesLoopBody(st, Head(list), cl),
                         Tail(list), cl)

\* the list under a key of the snapshot, empty when the key is absent
ListOf(d, key) == IF key \in DOMAIN d THEN d[key] ELSE <<>>

\* a bootstrap that applies the voice states whatever client.bot says
VoiceStatesPart_Always(st, d, cl) ==
    VoiceStatesLoop(st, ListOf(d, "voice_states"), cl)

\* if(data.voice_states): deferred when the client is not a bot
VoiceStatesPart(st, d, cl) ==
    IF cl.bot THEN VoiceStatesLoop(st, ListOf(d, "voice_states"), cl) ELSE st

\* the club, its registries and the client once the loops have left st
ClubBuilt(d, cl, st) ==
    [ club        |-> ClubUpdate(NewClub, d),
      roles       |-> st.roles,
      channels    |-> st.channels,
      members     |-> st.members,
      voiceStates |-> st.voiceStates,
      client      |-> [cl EXCEPT !.users = st.users,
                                 !.channelClubMap = st.map,
                                 !.events = st.events,
                                 !.ticks = st.ticks,
                                 !.joined = st.joined],
      built       |->
          [ constructed        |-> TRUE,
            unavailable        |-> IF Truthy(Get(d, "unavailable"))
                                   THEN "true" ELSE "false",
            joinedAt           |-> DateParse(Get(d, "joined_at")),
            memberCount        |-> Get(d, "member_count"),
            widgetEnabled      |-> Get(d, "widget_enabled"),
            widgetChannelID    |-> Get(d, "widget_channel_id"),
            approximateMemberCount   |-> Get(d, "approximate_member_count"),
            approximatePresenceCount |-> Get(d, "approximate_presence_count"),
            pendingVoiceStates |-> IF ~cl.bot
                                   THEN ListOf(d, "voice_states") ELSE <<>>,
            pending            |-> "voice_states" \in DOMAIN d /\ ~cl.bot ] ]

\* a constructor that reconciles the presences before it adds the members
ClubConstructor_PresencesFirst(d, cl) ==
    ClubBuilt(d, cl,
        VoiceStatesPart(
            MembersLoop(
                PresencesLoop(
                    ChannelsLoop(
                        RolesLoop(BuildStart(cl), ListOf(d, "roles")),
                        ListOf(d, "channels"), cl),
                    ListOf(d, "presences")),
                ListOf(d, "members")),
            d, cl))

\* new Club(data, client): roles, channels, members, presences, voice
\* states, then update(data)
ClubConstructor(d, cl) ==
    ClubBuilt(d, cl,
        VoiceStatesPart(
            PresencesLoop(
                MembersLoop(
                    ChannelsLoop(
                        RolesLoop(BuildStart(cl), ListOf(d, "roles")),
                        ListOf(d, "channels"), cl),
                    ListOf(d, "members")),
                ListOf(d, "presences")),
            d, cl))

----------------------------------------------------------------------------
(* Club construction: a club is built from a snapshot, then merged *)

\* an id no member of a snapshot has
UnknownID == "x"

\* the parts a snapshot is put together from
SnapshotRoles ==
    { <<>>,
      <<[id |-> ClubID, permissions |-> {"readMessages"}]>>,
      <<[id |-> ClubID, permissions |-> {"readMessages"}],
        [id |-> "r1", permissions |-> {"sendMessages"}]>>,
      <<[id |-> "r1", permissions |-> {"sendMessages"}]>> }

SnapshotChannels ==
    { <<[id |-> "c1", type |-> "0", name |-> Str_gen, position |-> "0"]>>,
      <<[id |-> "c1", type |-> "0", name |-> Str_gen, position |-> "0"],
        [id |-> "v1", type |-> "2", name |-> Str_nsfw, position |-> "1"]>> }

SnapshotMembers ==
    { <<[user |-> UserData(MemberID, "new"), roles |-> <<>>,
         joined_at |-> IsoDate]>>,
      <<[user |-> UserData(MemberID, "new"), roles |-> <<"r1">>,
         joined_at |-> IsoDate],
        [user |-> UserData(OtherID, "new"), roles |-> <<>>, nick |-> "nick1",
         joined_at |-> IsoDate]>> }

SnapshotPresences ==
    { <<[user |-> [id |-> UnknownID], status |-> "online", game |-> "null"],
        [user |-> [id |-> MemberID], status |-> "online", game |-> "game1"]>> }

SnapshotVoiceStates ==
    { <<[user_id |-> MemberID, channel_id |-> "v1", mute |-> "false",
         deaf |-> "false", suppress |-> "false"]>>,
      <<[user_id |-> UnknownID, channel_id |-> "v1", mute |-> "false",
         deaf |-> "false", suppress |-> "false"],
        [user_id |-> MemberID, channel_id |-> "c1", mute |-> "true",
         deaf |-> "false", suppress |-> "false"],
        [user_id |-> OtherID, channel_id |-> "v1", mute |-> "true",
         deaf |-> "false", suppress |-> "false"]>> }

SnapshotScalars ==
    { [id |-> ClubID, name |-> "a", owner_id |-> OtherID],
      [id |-> ClubID, name |-> "a", owner_id |-> MemberID,
       unavailable |-> "true", joined_at |-> IsoDate, member_count |-> "2",
       region |-> "eu"] }

\* the payload d with key k added when part is a list, given as a one-element
\* set, and left alone when part is the empty set
WithPart(d, k, part) ==
    IF part = {} THEN d
    ELSE [x \in DOMAIN d \cup {k} |->
              IF x = k THEN CHOOSE l \in part : TRUE ELSE d[x]]

\* a part is absent or one of the lists
Optional(S) == {{}} \cup {{l} : l \in S}

\* the snapshots a Club is constructed from
BuildSnapshots ==
    { WithPart(WithPart(WithPart(WithPart(WithPart(
          s, "roles", r), "channels", c), "members", m), "presences", p),
          "voice_states", v) :
        s \in SnapshotScalars, r \in Optional(SnapshotRoles),
        c \in Optional(SnapshotChannels), m \in Optional(SnapshotMembers),
        p \in Optional(SnapshotPresences), v \in Optional(SnapshotVoiceStates) }

\* the clients a Club is constructed for
BuildClients ==
    { [NewClient EXCEPT !.users = [x \in {MemberID} |-> [username |-> "old"]],
                        !.bot = b, !.oldClub = o, !.seed = s,
                        !.userID = MemberID] :
        b \in BOOLEAN, o \in BOOLEAN, s \in BOOLEAN }

\* the payloads merged into a constructed club
ClubPatches ==
    { [name |-> "b"],
      [roles |-> <<>>, owner_id |-> MemberID],
      [unavailable |-> "true", member_count |-> "9", region |-> "us"],
      [ unavailable |-> "false", member_count |-> "0", joined_at |-> "null",
        roles |-> <<[id |-> "r2", permissions |-> {"administrator"}]>>,
        channels |-> <<[id |-> "c2", type |-> "0", name |-> Str_gen]>>,
        members |-> <<[user |-> UserData(UnknownID, "new"), roles |-> <<>>]>>,
        presences |-> <<[user |-> [id |-> MemberID], status |-> "idle"]>>,
        voice_states |-> <<[user_id |-> MemberID, channel_id |-> "null",
                            mute |-> "false", deaf |-> "false",
                            suppress |-> "false"]>>,
        icon |-> "null" ] }

InitBuild ==
    /\ club = NewClub
    /\ roles = EmptyCollection
    /\ member = NewMember(MemberID, [id |-> MemberID])
    /\ channel = NewChannel([name |-> Str_gen])
    /\ voiceStates = EmptyCollection
    /\ data = EmptyPayload
    /\ op = "init"
    /\ result = [threw |-> FALSE, error |-> ""]
    /\ merges = 0
    /\ client \in BuildClients
    /\ members = EmptyCollection
    /\ channels = EmptyCollection
    /\ built = NotBuilt

\* new Club(d, client)
ConstructClub ==
    /\ ~built.constructed
    /\ \E d \in BuildSnapshots :
          LET r == ClubConstructor(d, client)
          IN  /\ club' = r.club
              /\ roles' = r.roles
              /\ channels' = r.channels
              /\ members' = r.members
              /\ voiceStates' = r.voiceStates
              /\ client' = r.client
              /\ built' = r.built
              /\ data' = d
    /\ op' = "new Club"
    /\ UNCHANGED <<member, channel, result, merges>>

\* an update that assigns the count of members as the constructor does
PatchClub_SetsMemberCount ==
    /\ built.constructed
    /\ merges < MaxClubMerges
    /\ \E d \in ClubPatches :
          /\ club' = ClubUpdate(club, d)
          /\ built' = [built EXCEPT !.memberCount = Get(d, "member_count")]
          /\ data' = d
    /\ op' = "Club.update"
    /\ merges' = merges + 1
    /\ UNCHANGED <<roles, member, voiceStates, channel, result, client,
                   members, channels>>

\* club.update(d) on the constructed club
PatchClub ==
    /\ built.constructed
    /\ merges < MaxClubMerges
    /\ \E d \in ClubPatches :
          /\ club' = ClubUpdate(club, d)
          /\ data' = d
    /\ op' = "Club.update"
    /\ merges' = merges + 1
    /\ UNCHANGED <<roles, member, voiceStates, channel, result>>
    /\ UNCHANGED cacheVars

\* the next tick: the callback scheduled first calls client.joinVoiceChannel
RunTick ==
    /\ built.constructed
    /\ client.ticks # <<>>
    /\ client' = [client EXCEPT !.ticks = Tail(@),
                                !.joined = Append(@, Head(client.ticks)),
                                !.voiceConnection = TRUE]
    /\ op' = "nextTick"
    /\ UNCHANGED <<club, roles, member, voiceStates, channel, data, result,
                   merges, members, channels, built>>

NextBuild == ConstructClub \/ PatchClub \/ RunTick

SpecBuild == InitBuild /\ [][NextBuild]_vars

----------------------------------------------------------------------------
(* Properties of Club construction *)

\* C19: after a Club is constructed from any snapshot, every channel in
\* club.channels and every member in club.members has the Club itself as its
\* club, not an object carrying only the id, and client.channelClubMap sends
\* each such channel's id to the club's id
C19_BackReferences ==
    built.constructed =>
        /\ \A id \in DOMAIN channels :
              /\ channels[id].club = ThisClub
              /\ id \in DOMAIN client.channelClubMap
              /\ client.channelClubMap[id] = ClubID
        /\ \A id \in DOMAIN members : members[id].club = ThisClub

C19_Witness ==
    /\ op = "new Club"
    /\ DOMAIN channels = {"c1", "v1"}
    /\ DOMAIN members = {MemberID, OtherID}
    /\ ~client.oldClub

\* C20: in every state of a constructed Club, whatever snapshot it was built
\* from and whatever merges followed, club.roles has a role whose id is the
\* club's id
C20_EveryoneRoleExists ==
    built.constructed => ClubID \in DOMAIN roles


\* the ids of the members a snapshot lists
SnapshotMemberIDs(d) ==
    {ListOf(d, "members")[i].user.id : i \in DOMAIN ListOf(d, "members")}

\* C21: during Club construction a presence whose user id is not in
\* club.members emits a diagnostic event, creates no member and raises no
\* error, and the other presences of the snapshot are still merged into
\* their members
C21_UnknownPresenceSkipped ==
    op = "new Club" =>
        \A i \in DOMAIN ListOf(data, "presences") :
            LET p == data.presences[i]
            IN  IF p.user.id \notin SnapshotMemberIDs(data)
                THEN /\ Event("debug", p.user.id) \in Range(client.events)
                     /\ p.user.id \notin DOMAIN members
                     /\ DOMAIN members = SnapshotMemberIDs(data)
                     /\ built.constructed
                ELSE /\ members[p.user.id].attrs.status = p.status
                     /\ members[p.user.id].attrs.game = p.game

C21_Witness ==
    /\ op = "new Club"
    /\ "presences" \in DOMAIN data
    /\ data.presences[1].user.id = UnknownID
    /\ data.presences[2].user.id = MemberID
    /\ DOMAIN members = {MemberID, OtherID}
    /\ members[MemberID].attrs.status = "online"
    /\ Event("debug", UnknownID) \in Range(client.events)


\* the entries of a snapshot's presences whose member the snapshot lacks
UnknownPresences(d) ==
    {i \in DOMAIN ListOf(d, "presences") :
        d.presences[i].user.id \notin SnapshotMemberIDs(d)}

\* the entries of a snapshot's voice_states whose member the snapshot lacks
UnknownVoiceStates(d) ==
    {i \in DOMAIN ListOf(d, "voice_states") :
        d.voice_states[i].user_id \notin SnapshotMemberIDs(d)}

\* the ids of the voice channels a snapshot lists
SnapshotVoiceChannelIDs(d) ==
    {ListOf(d, "channels")[i].id :
        i \in {j \in DOMAIN ListOf(d, "channels") : d.channels[j].type = "2"}}

\* the entries of a snapshot's voice_states of a known member whose channel
\* lookup fails
LostVoiceStates(d) ==
    {i \in DOMAIN ListOf(d, "voice_states") :
        /\ d.voice_states[i].user_id \in SnapshotMemberIDs(d)
        /\ d.voice_states[i].channel_id \notin SnapshotVoiceChannelIDs(d)}

\* C22: during voice-state bootstrapping an entry of a member not in
\* club.members and an entry whose channel lookup fails are each reported
\* through an event carrying the shard id, and the entry is skipped: its
\* member is in no channel's voiceMembers because of it
C22_VoiceAnomaliesReported ==
    (op = "new Club" /\ client.bot) =>
        /\ Len(client.events) =
              Cardinality(UnknownPresences(data))
              + Cardinality(UnknownVoiceStates(data))
              + Cardinality(LostVoiceStates(data))
        /\ \A i \in DOMAIN client.events : client.events[i].shard = ShardID
        /\ \A i \in UnknownVoiceStates(data) \cup LostVoiceStates(data) :
              \A c \in DOMAIN channels :
                  data.voice_states[i].user_id \in channels[c].voiceMembers =>
                      \E j \in DOMAIN data.voice_states :
                          /\ j \notin UnknownVoiceStates(data) \cup LostVoiceStates(data)
                          /\ data.voice_states[j].user_id = data.voice_states[i].user_id
                          /\ data.voice_states[j].channel_id = c


\* the payload d without the key k
Without(d, k) == [x \in DOMAIN d \ {k} |-> d[x]]

\* C23: when the client is not a bot, Club construction stores the
\* snapshot's voice_states as pendingVoiceStates and applies none of them:
\* voiceStates gains no entry, the members are what they are without the
\* voice states, no channel's voiceMembers changes and no voice reconnection
\* is scheduled
C23_VoiceStatesDeferred ==
    [][(/\ op' = "new Club"
        /\ ~client.bot
        /\ "voice_states" \in DOMAIN data')
       => /\ built'.pending
          /\ built'.pendingVoiceStates = data'.voice_states
          /\ voiceStates' = EmptyCollection
          /\ members' = ClubConstructor(Without(data', "voice_states"),
                                        client).members
          /\ \A c \in DOMAIN channels' : channels'[c].voiceMembers = {}
          /\ client'.ticks = client.ticks
          /\ client'.events =
                ClubConstructor(Without(data', "voice_states"), client).client.events]_vars

C23_Witness ==
    /\ op = "new Club"
    /\ ~client.bot
    /\ client.seed
    /\ "voice_states" \in DOMAIN data
    /\ data.voice_states[1].user_id = MemberID
    /\ data.voice_states[1].channel_id = "v1"
    /\ "v1" \in DOMAIN channels
    /\ MemberID \in DOMAIN members
    /\ built.pendingVoiceStates = data.voice_states
    /\ channels["v1"].voiceMembers = {}
    /\ client.ticks = <<>>


\* C24: the voice reconnection Club construction schedules for the local
\* account's voice state runs only after the constructor has finished, with
\* every registry filled and the snapshot's scalar fields applied; the
\* construction itself calls joinVoiceChannel never
C24_JoinAfterConstruction ==
    [][/\ op' = "new Club" =>
             /\ client'.joined = client.joined
             /\ \A i \in DOMAIN client'.ticks :
                   /\ client'.ticks[i] \in DOMAIN channels'
                   /\ client.userID \in channels'[client'.ticks[i]].voiceMembers
       /\ client'.joined # client.joined =>
             /\ op' = "nextTick"
             /\ built.constructed
             /\ club.name # "undefined"
             /\ club' = club
             /\ client.ticks # <<>>
             /\ client'.joined = Append(client.joined, Head(client.ticks))
             /\ Head(client.ticks) \in DOMAIN channels
             /\ client.userID \in channels[Head(client.ticks)].voiceMembers]_vars

C24_Witness ==
    /\ op = "nextTick"
    /\ built.constructed
    /\ client.joined = <<"v1">>
    /\ client.ticks = <<>>
    /\ MemberID \in channels["v1"].voiceMembers


----------------------------------------------------------------------------
(* Registry adds: members, roles and channel overwrites are added by id *)

\* the role payloads club.roles.add receives
RolePayloads ==
    { [id |-> ClubID, permissions |-> {"readMessages"}],
      [id |-> ClubID, permissions |-> {"sendMessages"}],
      [id |-> "r1", permissions |-> {"sendMessages"}],
      [id |-> "r1", permissions |-> {"administrator"}] }

InitAdd == InitMember

\* club.roles.add(d, club)
AddRole ==
    /\ merges < MaxMerges
    /\ \E d \in RolePayloads :
          /\ roles' = RolesAdd(roles, d)
          /\ data' = d
    /\ op' = "roles.add"
    /\ merges' = merges + 1
    /\ UNCHANGED <<club, member, voiceStates, channel, result>>
    /\ UNCHANGED cacheVars

\* channel.permissionOverwrites.add(d)
AddOverwrite ==
    /\ merges < MaxMerges
    /\ \E d \in {OverwritePayloads.c, OverwritePayloads.r1, OverwritePayloads.m,
                [OverwritePayloads.m EXCEPT !.deny = {}]} :
          /\ channel' = [channel EXCEPT
                            !.permissionOverwrites = OverwritesAdd(@, d)]
          /\ data' = d
    /\ op' = "permissionOverwrites.add"
    /\ merges' = merges + 1
    /\ UNCHANGED <<club, roles, member, voiceStates, result>>
    /\ UNCHANGED cacheVars

NextAdd == AddMember \/ AddRole \/ AddOverwrite

SpecAdd == InitAdd /\ [][NextAdd]_vars

\* C25: adding the same payload twice under the same id to club.members,
\* club.roles or a channel's permissionOverwrites leaves one entry under the
\* id, and the second add changes no attribute of the entity the first one
\* registered, nor anything else
C25_AddTwiceIsNoOp ==
    [][/\ (/\ op = "members.add" /\ op' = "members.add"
           /\ ~result.threw /\ data' = data)
          => /\ ~result'.threw
             /\ data.id \in DOMAIN members
             /\ members' = members
             /\ voiceStates' = voiceStates
             /\ client' = client
       /\ (op = "roles.add" /\ op' = "roles.add" /\ data' = data)
          => /\ data.id \in DOMAIN roles
             /\ roles' = roles
       /\ (/\ op = "permissionOverwrites.add"
           /\ op' = "permissionOverwrites.add" /\ data' = data)
          => /\ data.id \in DOMAIN channel.permissionOverwrites
             /\ channel' = channel]_vars

C25_Witness ==
    /\ op = "members.add"
    /\ merges = 2
    /\ ~result.threw
    /\ "roles" \in DOMAIN data
    /\ DOMAIN members = {data.id}
    /\ members[data.id].attrs.roles = data.roles
    /\ members[data.id].attrs.nick = data.nick


----------------------------------------------------------------------------
(* Permission accessors of a member and the two forms of the argument *)

\* a getter that hands back the value of the read before
MemberPermissions_Cached(m) == result

\* get permissions(): this.club.permissionsOf(this)
MemberPermissions(m) == ClubPermissionsOf(m)

\* what the deprecated getter emits: "warn" with a message, no shard id
DeprecationWarning ==
    [name |-> "warn", about |-> "Member#permission", shard |-> "undefined"]

\* a deprecated getter that resolves the everyone role alone
MemberPermission_Fork(m, cl) ==
    [ value  |-> Permission(IF ClubID \in DOMAIN roles THEN roles[ClubID] ELSE {}),
      client |-> [cl EXCEPT !.events = Append(@, DeprecationWarning)] ]

\* get permission(): emit the warning, then return this.permissions
MemberPermission(m, cl) ==
    [ value  |-> MemberPermissions(m),
      client |-> [cl EXCEPT !.events = Append(@, DeprecationWarning)] ]

\* the argument of permissionsOf: the id of a member, or the Member object
\* registered under it
IdArg(id) == [kind |-> "String", id |-> id]
MemberArg(id) == [kind |-> "Member", id |-> id, member |-> members[id].attrs]

\* a resolution that takes the id for a member that holds no role
ResolveMember_Bare(arg) ==
    IF arg.kind = "Member" THEN arg.member
    ELSE [members[arg.id].attrs EXCEPT !.roles = <<>>]

\* memberID instanceof Member ? memberID : this.members.get(memberID)
ResolveMember(arg) ==
    IF arg.kind = "Member" THEN arg.member ELSE members[arg.id].attrs

\* club.permissionsOf(arg) and channel.permissionsOf(arg)
ClubPermissionsOfArg(arg) == ClubPermissionsOf(ResolveMember(arg))
ChannelPermissionsOfArg(arg) == ChannelPermissionsOf(ResolveMember(arg))

\* the registry entry of a member of this club
RegisteredMember(id, rs) ==
    [ attrs |-> NewMember(id, [id |-> id, roles |-> rs]),
      club  |-> ThisClub,
      user  |-> CachedUser(id) ]

InitRead ==
    /\ club = ClubUpdate(NewClub, [name |-> "a", owner_id |-> OtherID])
    /\ roles \in { [r \in {ClubID} |-> {"readMessages"}],
                   [r \in {ClubID, "r1"} |->
                       IF r = ClubID THEN {"readMessages"} ELSE {"sendMessages"}],
                   [r \in {ClubID, "r1"} |->
                       IF r = ClubID THEN {"readMessages"} ELSE {"administrator"}] }
    /\ member = NewMember(MemberID, [id |-> MemberID])
    /\ channel \in {[NewChannel([name |-> Str_gen, type |-> "0"])
                        EXCEPT !.permissionOverwrites =
                                   OverwritesAddAll(EmptyCollection, l)] :
                    l \in {<<>>,
                           <<OverwritePayloads.c, OverwritePayloads.m>>,
                           <<OverwritePayloads.r1>>}}
    /\ voiceStates = EmptyCollection
    /\ data = EmptyPayload
    /\ op = "init"
    /\ result = Permission({})
    /\ merges = 0
    /\ client = [NewClient EXCEPT
                    !.users = [x \in {MemberID, OtherID} |-> [username |-> "old"]]]
    /\ members = [x \in {MemberID, OtherID} |->
                     RegisteredMember(x, IF x = MemberID THEN <<"r1">> ELSE <<>>)]
    /\ channels = EmptyCollection
    /\ built = NotBuilt

\* club.members.update({id, roles}): the roles of a member are replaced
PatchMemberRoles ==
    /\ merges < MaxMerges
    /\ \E id \in {MemberID, OtherID}, l \in {<<>>, <<"r1">>, <<"r2", "r1">>} :
          LET d == [id |-> id, roles |-> l]
              r == MembersUpdate(members, d, voiceStates)
          IN  /\ members' = r.members
              /\ voiceStates' = r.voiceStates
              /\ data' = d
    /\ op' = "members.update"
    /\ merges' = merges + 1
    /\ UNCHANGED <<club, roles, member, channel, result, client, channels, built>>

\* club.update({owner_id}): the club changes hands
PatchOwner ==
    /\ merges < MaxMerges
    /\ \E o \in {MemberID, OtherID} :
          /\ club' = ClubUpdate(club, Single("owner_id", o))
          /\ data' = Single("owner_id", o)
    /\ op' = "Club.update"
    /\ merges' = merges + 1
    /\ UNCHANGED <<roles, member, voiceStates, channel, result>>
    /\ UNCHANGED cacheVars

\* club.roles.remove({id}): a role leaves the registry
RemoveRole ==
    /\ merges < MaxMerges
    /\ \E id \in {ClubID, "r1"} :
          /\ roles' = CollectionDelete(roles, id)
          /\ data' = [id |-> id]
    /\ op' = "roles.remove"
    /\ merges' = merges + 1
    /\ UNCHANGED <<club, member, voiceStates, channel, result>>
    /\ UNCHANGED cacheVars

\* member.permissions
ReadPermissions ==
    /\ merges < MaxMerges
    /\ \E id \in DOMAIN members :
          /\ result' = MemberPermissions(members[id].attrs)
          /\ data' = [id |-> id]
    /\ op' = "Member.permissions"
    /\ merges' = merges + 1
    /\ UNCHANGED <<club, roles, member, voiceStates, channel>>
    /\ UNCHANGED cacheVars

\* member.permission
ReadPermission ==
    /\ merges < MaxMerges
    /\ \E id \in DOMAIN members :
          /\ result' = MemberPermission(members[id].attrs, client).value
          /\ client' = MemberPermission(members[id].attrs, client).client
          /\ data' = [id |-> id]
    /\ op' = "Member.permission"
    /\ merges' = merges + 1
    /\ UNCHANGED <<club, roles, member, voiceStates, channel, members,
                   channels, built>>

\* a resolution that also drops the role ids it could not find from the
\* roles of the member it resolved
CallPermissionsOf_DropUnknownRoles ==
    /\ merges < MaxMerges
    /\ \E id \in DOMAIN members, scope \in {"Club", "ClubChannel"} :
       \E arg \in {IdArg(id), MemberArg(id)} :
          /\ result' = IF scope = "Club" THEN ClubPermissionsOfArg(arg)
                       ELSE ChannelPermissionsOfArg(arg)
          /\ members' = [members EXCEPT ![id].attrs.roles =
                            SelectSeq(@, LAMBDA r : r \in DOMAIN roles)]
          /\ data' = [scope |-> scope, arg |-> arg]
    /\ op' = "permissionsOf"
    /\ merges' = merges + 1
    /\ UNCHANGED <<club, roles, member, voiceStates, channel, client,
                   channels, built>>

\* club.permissionsOf(arg) or channel.permissionsOf(arg)
CallPermissionsOf ==
    /\ merges < MaxMerges
    /\ \E id \in DOMAIN members, scope \in {"Club", "ClubChannel"} :
       \E arg \in {IdArg(id), MemberArg(id)} :
          /\ result' = IF scope = "Club" THEN ClubPermissionsOfArg(arg)
                       ELSE ChannelPermissionsOfArg(arg)
          /\ data' = [scope |-> scope, arg |-> arg]
    /\ op' = "permissionsOf"
    /\ merges' = merges + 1
    /\ UNCHANGED <<club, roles, member, voiceStates, channel>>
    /\ UNCHANGED cacheVars

NextRead ==
    \/ PatchMemberRoles
    \/ PatchOwner
    \/ AddRole
    \/ RemoveRole
    \/ ReadPermissions
    \/ ReadPermission
    \/ CallPermissionsOf

SpecRead == InitRead /\ [][NextRead]_vars

----------------------------------------------------------------------------
(* Properties of the permission accessors *)

\* C26: member.permissions holds no cached value: after any merges of the
\* member's roles, the club's ownerID or club.roles, what it returns is
\* Club.permissionsOf on the state it is read in
C26_PermissionsNotCached ==
    op = "Member.permissions" =>
        result = ClubPermissionsOf(members[data.id].attrs)

C26_Witness ==
    /\ op = "Member.permissions"
    /\ merges = 2
    /\ data.id = MemberID
    /\ club.ownerID = MemberID
    /\ result = Permission(Permissions_all)

\* C27: the deprecated member.permission returns what member.permissions
\* returns and changes nothing but the list of emitted events, which gains
\* one warning per access
C27_PermissionAlias ==
    [][op' = "Member.permission" =>
          /\ result' = MemberPermissions(members[data'.id].attrs)
          /\ client' = [client EXCEPT !.events = Append(@, DeprecationWarning)]
          /\ UNCHANGED <<club, roles, member, voiceStates, channel, members,
                         channels, built>>]_vars

C27_Witness ==
    /\ op = "Member.permission"
    /\ client.events = <<DeprecationWarning, DeprecationWarning>>
    /\ data.id = MemberID
    /\ result = Permission({"readMessages", "sendMessages"})

\* C28: for every member in club.members, Club.permissionsOf and
\* ClubChannel.permissionsOf return the same mask for the member's id as for
\* the Member object
C28_IdOrMember ==
    /\ \A id \in DOMAIN members :
          /\ ClubPermissionsOfArg(IdArg(id)) = ClubPermissionsOfArg(MemberArg(id))
          /\ ChannelPermissionsOfArg(IdArg(id)) =
                ChannelPermissionsOfArg(MemberArg(id))
    /\ op = "permissionsOf" =>
          result = IF data.scope = "Club"
                   THEN ClubPermissionsOfArg(MemberArg(data.arg.id))
                   ELSE ChannelPermissionsOfArg(MemberArg(data.arg.id))

C28_Witness ==
    /\ op = "permissionsOf"
    /\ data.scope = "ClubChannel"
    /\ data.arg = IdArg(MemberID)
    /\ members[MemberID].attrs.roles = <<"r2", "r1">>
    /\ result = Permission({"readMessages"})


----------------------------------------------------------------------------
(* ClubChannel.update on payloads whose permission_overwrites make it throw *)

\* the permission_overwrites values of these payloads: no array, a list whose
\* second or only entry is null, and a well-formed list
OverwriteLists ==
    { NotAList,
      List(<<OverwritePayloads.r1, NullObject>>),
      List(<<NullObject>>),
      List(<<OverwritePayloads.m>>) }

\* a payload of other keys with permission_overwrites added
FaultyChannelPayloads ==
    { [x \in DOMAIN d \cup {"permission_overwrites"} |->
          IF x = "permission_overwrites" THEN l ELSE d[x]] :
        d \in { EmptyPayload,
                [name |-> Str_nsfw],
                [type |-> "2", position |-> "1"],
                [position |-> "2", parent_id |-> "null"],
                [name |-> Str_nsfwDashX, nsfw |-> "false"],
                [name |-> Str_nsfx, type |-> "2", position |-> "1",
                 parent_id |-> "cat1"] },
        l \in OverwriteLists }

InitChannel ==
    /\ club = ClubUpdate(NewClub, [name |-> "a", owner_id |-> OtherID])
    /\ roles = [r \in {ClubID} |-> {"readMessages"}]
    /\ member = NewMember(MemberID, [id |-> MemberID])
    /\ channel \in {NewChannel(d) :
                      d \in { [type |-> "0", name |-> Str_gen, position |-> "0",
                               permission_overwrites |-> List(<<>>)],
                              [type |-> "0", name |-> Str_gen, position |-> "0",
                               parent_id |-> "null",
                               permission_overwrites |->
                                   List(<<OverwritePayloads.c,
                                          OverwritePayloads.m>>)] }}
    /\ voiceStates = EmptyCollection
    /\ data = EmptyPayload
    /\ op = "init"
    /\ result = [threw |-> FALSE, error |-> ""]
    /\ merges = 0
    /\ NoCache

\* channel.update(d), and whether it threw
MergeChannel ==
    /\ merges < MaxMerges
    /\ \E d \in FaultyChannelPayloads :
          /\ channel' = ChannelUpdate(channel, d)
          /\ result' = [threw |-> ChannelUpdateThrows(d),
                        error |-> IF ChannelUpdateThrows(d)
                                  THEN "TypeError" ELSE ""]
          /\ data' = d
    /\ op' = "ClubChannel.update"
    /\ merges' = merges + 1
    /\ UNCHANGED <<club, roles, member, voiceStates>>
    /\ UNCHANGED cacheVars

NextChannel == MergeChannel

SpecChannel == InitChannel /\ [][NextChannel]_vars

\* C29: when a ClubChannel merge throws while processing
\* permission_overwrites, the channel's permissionOverwrites registry is what
\* it was before the call, and type, name, position and parentID of the same
\* payload stay applied
C29_FailedOverwritesKept ==
    [][(op' = "ClubChannel.update" /\ result'.threw) =>
          /\ channel'.permissionOverwrites = channel.permissionOverwrites
          /\ "type" \in DOMAIN data' => channel'.type = data'.type
          /\ "name" \in DOMAIN data' => channel'.name = data'.name
          /\ "position" \in DOMAIN data' => channel'.position = data'.position
          /\ "parent_id" \in DOMAIN data' => channel'.parentID = data'.parent_id]_vars


----------------------------------------------------------------------------
(* The order of Club construction *)

\* the presences of a snapshot whose member the snapshot lists are merged
\* into that member and raise no "debug" event
KnownPresencesMerged ==
    \A i \in DOMAIN ListOf(data, "presences") \ UnknownPresences(data) :
        LET p == data.presences[i]
        IN  /\ members[p.user.id].attrs.status = p.status
            /\ members[p.user.id].attrs.game = p.game
            /\ Event("debug", p.user.id) \notin Range(client.events)

\* the voice states of a snapshot whose member the snapshot lists
KnownVoiceStates(d) == DOMAIN ListOf(d, "voice_states") \ UnknownVoiceStates(d)

\* C30 as stated: construction runs roles, channels, members, presences,
\* voice states, scalar fields, so every presence and every voice state of a
\* member the same snapshot lists is merged into that member, and none is
\* reported or skipped
C30_KnownEntriesMerged ==
    op = "new Club" =>
        /\ KnownPresencesMerged
        /\ \A i \in KnownVoiceStates(data) :
              LET v == data.voice_states[i]
              IN  /\ v.channel_id \in DOMAIN channels
                  /\ v.user_id \in channels[v.channel_id].voiceMembers
                  /\ Event("error", v.user_id) \notin Range(client.events)

\* C30 amended: every presence of a member the snapshot lists is merged; a
\* voice state of such a member is never skipped as unknown: a bot client
\* applies it when its channel is a voice channel of the snapshot and reports
\* it with "error" when the channel lookup fails, any other client keeps it
\* in pendingVoiceStates
C30_KnownEntriesReconciled ==
    op = "new Club" =>
        /\ KnownPresencesMerged
        /\ built.constructed
        /\ \A k \in ClubKeys \cap DOMAIN data : club[ClubFields[k]] = data[k]
        /\ \A i \in KnownVoiceStates(data) :
              LET v == data.voice_states[i]
              IN  IF ~client.bot
                  THEN built.pendingVoiceStates[i] = v
                  ELSE IF v.channel_id \in SnapshotVoiceChannelIDs(data)
                  THEN v.user_id \in channels[v.channel_id].voiceMembers
                  ELSE Event("error", v.user_id) \in Range(client.events)

C30_Witness ==
    /\ op = "new Club"
    /\ client.bot
    /\ DOMAIN members = {MemberID, OtherID}
    /\ "presences" \in DOMAIN data
    /\ members[MemberID].attrs.status = "online"
    /\ "voice_states" \in DOMAIN data
    /\ Len(data.voice_states) = 3
    /\ "v1" \in DOMAIN channels
    /\ channels["v1"].voiceMembers = {OtherID}
    /\ Event("error", MemberID) \in Range(client.events)
    /\ club.region = "eu"

----------------------------------------------------------------------------
(* Claim C31 *)

\* a voice state of a member that is in no channel and has no flag set
FullyDisconnected(state) ==
    /\ state.channelID = "null"
    /\ ~Truthy(state.mute)
    /\ ~Truthy(state.deaf)
    /\ ~Truthy(state.suppress)

\* C31: club.voiceStates never holds a fully disconnected voice state: after
\* any sequence of voice merges through Member.update no registered state has
\* channel id null together with mute, deaf and suppress all false.
C31_NoDisconnectedVoiceState ==
    \A id \in DOMAIN voiceStates : ~FullyDisconnected(voiceStates[id])

----------------------------------------------------------------------------
(* Claim C32 *)

\* C32: Club.permissionsOf and ClubChannel.permissionsOf only read: a call,
\* whether it returns or raises, leaves the club's fields, the roles, members,
\* channels and voiceStates registries, the channel's permissionOverwrites and
\* the roles of every member as they were.
C32_PermissionsOfReadOnly ==
    [][op' = "permissionsOf" =>
          /\ club' = club
          /\ built' = built
          /\ roles' = roles
          /\ members' = members
          /\ \A id \in DOMAIN members :
                members'[id].attrs.roles = members[id].attrs.roles
          /\ channels' = channels
          /\ voiceStates' = voiceStates
          /\ channel' = channel
          /\ channel'.permissionOverwrites = channel.permissionOverwrites]_vars

\* a channel-scope call by id that raised: the everyone role had been
\* removed, the member still holds a role the registry no longer resolves
C32_Witness ==
    /\ op = "permissionsOf"
    /\ result = Thrown
    /\ data.scope = "ClubChannel"
    /\ data.arg = IdArg(MemberID)
    /\ ClubID \notin DOMAIN roles
    /\ members[MemberID].attrs.roles = <<"r1">>
    /\ DOMAIN channel.permissionOverwrites = {ClubID, MemberID}

\* a club-scope call with the Member object that returned a mask
C32_WitnessReturned ==
    /\ op = "permissionsOf"
    /\ ~result.threw
    /\ data.scope = "Club"
    /\ data.arg.kind = "Member"
    /\ result.allow = {"readMessages", "sendMessages"}

----------------------------------------------------------------------------
(* Claim C33 *)

\* what the constructor alone assigns: the unavailable flag, memberCount,
\* joinedAt and the four registries
ConstructedPart ==
    <<built.unavailable, built.memberCount, built.joinedAt,
      channels, members, roles, voiceStates>>

\* C33: Club.update, for any payload including one that carries unavailable,
\* member_count, joined_at, roles, channels, members, presences or
\* voice_states, leaves the unavailable flag, memberCount, joinedAt and the
\* channels, members, roles and voiceStates registries unchanged; a step that
\* sets them is the construction.
C33_UpdateKeepsConstructedPart ==
    [][/\ op' = "Club.update" => ConstructedPart' = ConstructedPart
       /\ ConstructedPart' # ConstructedPart => op' = "new Club"]_vars

\* a payload with every such key, saying available and a count of 0, merged
\* into a club built unavailable with two members and a count of 2: only the
\* icon of the payload is applied
C33_Witness ==
    /\ op = "Club.update"
    /\ {"unavailable", "member_count", "joined_at", "roles", "channels",
        "members", "presences", "voice_states"} \subseteq DOMAIN data
    /\ club.icon = "null"
    /\ built.unavailable = "true"
    /\ built.memberCount = "2"
    /\ built.joinedAt = DateParse(IsoDate)
    /\ DOMAIN members = {MemberID, OtherID}
    /\ DOMAIN channels = {"c1", "v1"}
    /\ DOMAIN roles = {ClubID, "r1"}
    /\ UnknownID \notin DOMAIN members

----------------------------------------------------------------------------
(* Claim C34 *)

\* the member with another list of role ids
WithRoles(m, l) == [m EXCEPT !.roles = l]

\* the lists that hold the same set of role ids as l: its permutations and
\* the lists that repeat some of its ids
SameRoleSet(l) == {k \in RoleLists : Range(k) = Range(l)}

\* C34: the results of Club.permissionsOf and ClubChannel.permissionsOf depend
\* only on the set of role ids in member.roles: permuting the list or
\* repeating a role id in it changes neither result.
C34_RoleOrderIrrelevant ==
    /\ op = "Club.permissionsOf" =>
          \A l \in SameRoleSet(member.roles) :
              ClubPermissionsOf(WithRoles(member, l)) = result
    /\ op = "ClubChannel.permissionsOf" =>
          \A l \in SameRoleSet(member.roles) :
              ChannelPermissionsOf(WithRoles(member, l)) = result

\* channel scope resolved for the list r2, r1: the two roles grant different
\* bits and their overwrites disagree, and the list r1, r2 resolves alike
C34_Witness ==
    /\ op = "ClubChannel.permissionsOf"
    /\ NonAdministrator
    /\ member.roles = <<"r2", "r1">>
    /\ {ClubID, "r1", "r2"} \subseteq DOMAIN roles
    /\ roles["r1"] # roles["r2"]
    /\ {"r1", "r2"} \subseteq DOMAIN channel.permissionOverwrites
    /\ channel.permissionOverwrites["r1"].deny = {"sendMessages"}
    /\ channel.permissionOverwrites["r2"].allow = {"sendMessages"}
    /\ <<"r1", "r2">> \in SameRoleSet(member.roles)
    /\ result = ChannelPermissionsOf(WithRoles(member, <<"r1", "r2">>))
    /\ "sendMessages" \in result.allow

----------------------------------------------------------------------------
(* Claim C35 *)

\* C35: club scope and channel scope agree on administrator: a mask that
\* Club.permissionsOf returns with the administrator bit is the full mask, so
\* ClubChannel.permissionsOf returns the full mask for a member exactly when
\* Club.permissionsOf does, also when only the everyone role's mask carries
\* the administrator bit.
C35_ScopesAgreeOnAdministrator ==
    /\ (op = "Club.permissionsOf" /\ ~result.threw
            /\ result.allow \cap Permissions_administrator # {}) =>
          result.allow = Permissions_all
    /\ op = "ClubChannel.permissionsOf" =>
          (result = Permission(Permissions_all)
              <=> ClubPermissionsOf(member) = Permission(Permissions_all))

====
